---- MODULE Spec2Model ----
(***************************************************************************)
(* Model of the voice-session correlation and skill-orchestration layer    *)
(* of vapi-skills-service: the session log (vapi_logs), the webhook        *)
(* handlers that write and read it, the site resolver and the site-update  *)
(* extraction pipeline.                                                    *)
(*                                                                         *)
(* Python strings whose characters matter (descriptions, transcripts,      *)
(* keywords) are sequences of one-character strings; identifiers (call     *)
(* ids, tenant ids, site ids) are TLA+ strings.  Messages built with       *)
(* f-strings are kept as their template text.                              *)
(***************************************************************************)
EXTENDS Integers, Sequences, FiniteSets, TLC

\* Python None, as the value of an identifier-valued field.
None == "None"
\* A key that is missing from a request or from a JSON object.
Absent == "Absent"
\* `x is None`, for an x that holds None or an identifier of any type
IsNone(x) == ToString(x) = ToString(None)

(***************************************************************************)
(* Text                                                                    *)
(***************************************************************************)
UpperLetters == <<"A", "B", "C", "D", "E", "F", "G", "H", "I", "J", "K", "L", "M", "N", "O", "P", "Q", "R", "S", "T", "U", "V", "W", "X", "Y", "Z">>
LowerLetters == <<"a", "b", "c", "d", "e", "f", "g", "h", "i", "j", "k", "l", "m", "n", "o", "p", "q", "r", "s", "t", "u", "v", "w", "x", "y", "z">>

LowerChar(c) ==
    IF \E i \in DOMAIN UpperLetters : UpperLetters[i] = c
    THEN LowerLetters[CHOOSE i \in DOMAIN UpperLetters : UpperLetters[i] = c]
    ELSE c

\* str.lower()
Lower(s) == [i \in DOMAIN s |-> LowerChar(s[i])]

\* needle in hay
Contains(hay, needle) ==
    \E i \in 0..(Len(hay) - Len(needle)) :
        SubSeq(hay, i + 1, i + Len(needle)) = needle

\* any(word in text for word in words)
AnyWordIn(words, text) == \E i \in DOMAIN words : Contains(text, words[i])

IsSpace(c) == c \in {" ", "\t", "\n"}

RECURSIVE LStrip(_)
LStrip(s) == IF s # <<>> /\ IsSpace(Head(s)) THEN LStrip(Tail(s)) ELSE s

RECURSIVE RStrip(_)
RStrip(s) ==
    IF s # <<>> /\ IsSpace(s[Len(s)]) THEN RStrip(SubSeq(s, 1, Len(s) - 1)) ELSE s

\* str.strip()
Strip(s) == RStrip(LStrip(s))

\* " ".join(parts)
RECURSIVE JoinSpace(_)
JoinSpace(parts) ==
    IF parts = <<>> THEN <<>>
    ELSE IF Len(parts) = 1 THEN parts[1]
    ELSE parts[1] \o <<" ">> \o JoinSpace(Tail(parts))

\* dict.get(key), None when the key is missing
Get(d, k) == IF k \in DOMAIN d THEN d[k] ELSE None

(***************************************************************************)
(* Python values held in dictionaries whose shape is not fixed             *)
(***************************************************************************)
PyNone == [t |-> "none"]
PyAbsent == [t |-> "absent"]
PyStr(s) == [t |-> "str", v |-> s]
PyBool(b) == [t |-> "bool", v |-> b]
PyList(l) == [t |-> "list", v |-> l]
PyDict(d) == [t |-> "dict", v |-> d]

\* args.get(key, default)
ArgGet(v, default) == IF v.t = "absent" THEN default ELSE v

\* bool(v)
Truthy(v) ==
    CASE v.t = "none" -> FALSE
      [] v.t = "absent" -> FALSE
      [] v.t = "bool" -> v.v
      [] v.t = "str" -> v.v # <<>>
      [] v.t = "list" -> v.v # <<>>
      [] OTHER -> TRUE

(***************************************************************************)
(* Bounds                                                                  *)
(***************************************************************************)
\* rows of vapi_logs plus log writes in flight
MaxLogs == 2
\* rows of the domain tables (site_progress_updates, voice_notes) together
MaxRecords == 2
\* calls of process_update on one update_data
MaxCalls == 2
\* register calls on one registry
MaxRegistrations == 4
\* setup_all runs
MaxRuns == 2
\* tools, resp. assistants, the voice platform holds
MaxTools == 4
MaxAssistants == 3
\* the longest list of enabled skills of a user
MaxSkills == 3
\* the longest toolCalls list of a request
MaxToolCalls == 2

(***************************************************************************)
(* The remote store's tables that no handler writes                        *)
(***************************************************************************)
CallIds == {"c1", "c2"}
SiteIds == {"s1", "s2", "s3"}

\* users joined with tenants(name), in the order the store returns them
UsersTable ==
    << [id |-> "u1", name |-> "Ann Lee", phone_number |-> "p1",
        tenant_id |-> "t1", tenant_name |-> "Acme", is_active |-> TRUE],
       [id |-> "u2", name |-> "Bo Ray", phone_number |-> "p2",
        tenant_id |-> "t2", tenant_name |-> "Borg", is_active |-> TRUE],
       [id |-> "u3", name |-> "Cy Fox", phone_number |-> "p3",
        tenant_id |-> "t1", tenant_name |-> "Acme", is_active |-> FALSE] >>

\* entities of entity_type sites, in the order the store returns them
EntitiesTable ==
    << [id |-> "s1", tenant_id |-> "t1", name |-> "Ocean House"],
       [id |-> "s2", tenant_id |-> "t1", name |-> "Smith Build"],
       [id |-> "s3", tenant_id |-> "t2", name |-> "Hill Road"] >>

TenantNames == [t1 |-> "Acme", t2 |-> "Borg"]

VARIABLES
    vapi_logs,              \* the session log: sequence of rows, in insertion order
    inflight,               \* authentication turns suspended in log_vapi_interaction
    recorded,               \* history: every row of vapi_logs as it was inserted
    active,                 \* the site ids whose entity has is_active = true
    site_progress_updates,  \* domain table
    voice_notes,            \* domain table
    last,                   \* the turn that completed last: what it did and its reply
    update_data,            \* the dictionary handed to SiteUpdateProcessor.process_update
    processed,              \* the calls of process_update on update_data, in order
    registry,               \* SkillRegistry: the skills and assistants dictionaries
    vapi,                   \* the voice platform: its tools and its assistants
    setup_run,              \* the setup_all run in progress
    reports,                \* what the completed setup_all runs returned, in order
    creating                \* the create_tools runs in progress, one per service instance

vars == <<vapi_logs, inflight, recorded, active, site_progress_updates,
          voice_notes, last, update_data, processed, registry, vapi, setup_run, reports,
          creating>>

\* the parts of the state a handler may leave alone
tableVars == <<site_progress_updates, voice_notes>>
\* update_data, processed and the create_tools runs, which no handler touches
extractVars == <<update_data, processed, creating>>
setupVars == <<registry, vapi, setup_run, reports>>

(***************************************************************************)
(* Webhook requests                                                        *)
(***************************************************************************)
\* call: message.call.id, Absent when the request carries no call object;
\* toolCallId: message.toolCalls[0].id; argCall: the vapi_call_id argument.
Request(call, toolCallId, argCall) ==
    [call |-> call, toolCallId |-> toolCallId, argCall |-> argCall]

\* the tool_call_id that extract_vapi_args returns
ExtractToolCallId(req) ==
    IF req.toolCallId = Absent THEN "unknown" ELSE req.toolCallId

\* The JSON bodies extract_vapi_args is applied to.  A body is a dictionary of direct
\* arguments, with or without the key message; a message is null, a string, or an object
\* whose toolCalls is missing (absent), null or a list; an entry of the list is null or
\* an object with id and function, each missing, null or present.
RawRequests ==
    LET ToolCallValues ==
            {PyNone} \cup
            {PyDict([id |-> i, function |-> f]) :
                i \in {PyAbsent, PyNone, PyStr("tc1"), PyStr("tc2")},
                f \in {PyAbsent, PyNone} \cup
                      {PyDict([arguments |-> a]) :
                          a \in {PyAbsent, PyNone, PyDict([site_id |-> "s1"])}}}
        MessageValues ==
            {PyNone, PyStr("hello")} \cup
            {PyDict([toolCalls |-> c]) :
                c \in {PyAbsent, PyNone} \cup
                      {PyList(l) :
                          l \in UNION {[1..n -> ToolCallValues] : n \in 0..MaxToolCalls}}}
    IN  {[caller_phone |-> "p1"]} \cup
        {[caller_phone |-> "p1", message |-> m] : m \in MessageValues}

\* {}
EmptyDict == PyDict(<<>>)

\* extract_vapi_args reading the last tool call of the list
extract_vapi_args_last(request) ==
    LET calls == request.message.v.toolCalls.v
        tool_call == calls[Len(calls)]
    IN  IF "message" \in DOMAIN request /\ request.message.t = "dict"
           /\ request.message.v.toolCalls.t = "list" /\ calls # <<>> /\ tool_call.t = "dict"
        THEN [tool_call_id |-> ArgGet(tool_call.v.id, PyStr("unknown")),
              args |-> IF tool_call.v.function.t = "dict"
                          /\ tool_call.v.function.v.arguments.t # "absent"
                       THEN tool_call.v.function.v.arguments ELSE EmptyDict]
        ELSE [tool_call_id |-> PyStr("unknown"), args |-> EmptyDict]

\* extract_vapi_args: (tool_call_id, args).  An exception inside the try block ends it
\* with what the two variables hold at that point.
extract_vapi_args(request) ==
    LET unknown == PyStr("unknown")
        Return(tool_call_id, args) == [tool_call_id |-> tool_call_id, args |-> args]
    IN  IF "message" \notin DOMAIN request
        THEN Return(unknown, PyDict(request))
        ELSE LET message == request.message
             IN  \* "toolCalls" in None: TypeError
                 IF message.t = "none" THEN Return(unknown, EmptyDict)
                 \* "toolCalls" in "hello", or a message without the key
                 ELSE IF message.t = "str" \/ message.v.toolCalls.t = "absent"
                 THEN Return(unknown, PyDict(request))
                 ELSE LET tool_calls == message.v.toolCalls
                      IN  \* len(None): TypeError
                          IF tool_calls.t = "none" THEN Return(unknown, EmptyDict)
                          ELSE IF tool_calls.v = <<>> THEN Return(unknown, EmptyDict)
                          ELSE LET tool_call == tool_calls.v[1]
                               IN  \* None.get: AttributeError
                                   IF tool_call.t = "none" THEN Return(unknown, EmptyDict)
                                   ELSE LET tool_call_id == ArgGet(tool_call.v.id, unknown)
                                            function == tool_call.v.function
                                        IN  IF function.t = "absent"
                                            THEN Return(tool_call_id, EmptyDict)
                                            \* "arguments" in None: TypeError
                                            ELSE IF function.t = "none"
                                            THEN Return(tool_call_id, EmptyDict)
                                            ELSE IF function.v.arguments.t = "absent"
                                            THEN Return(tool_call_id, EmptyDict)
                                            ELSE Return(tool_call_id, function.v.arguments)

\* The values of an input a turn reads only past some point: all of them when the turn
\* gets there, one otherwise.
Among(reached, values, otherwise) == IF reached THEN values ELSE {otherwise}

\* `not x` for an identifier-valued x
Falsy(x) == x \in {None, Absent, ""}

(***************************************************************************)
(* Session Context Store                                                   *)
(***************************************************************************)
NoSession == [found |-> FALSE]

\* the dictionary get_session_context_by_call_id builds from a row
SessionOfRow(row) ==
    [found |-> TRUE,
     tenant_id |-> row.tenant_id,
     user_id |-> row.user_id,
     caller_phone |-> row.caller_phone,
     user_name |-> Get(row.raw_log_data, "user_name"),
     tenant_name |-> Get(row.raw_log_data, "tenant_name")]

\* The filter without interaction_type: every row of the call.
AuthRowsAnyType(logs, c) == {i \in DOMAIN logs : logs[i].vapi_call_id = c}

\* the rows the query's filter keeps (vapi_call_id = c, interaction_type = authentication)
AuthRows(logs, c) ==
    {i \in DOMAIN logs :
        /\ logs[i].vapi_call_id = c
        /\ logs[i].interaction_type = "authentication"}

\* order=created_at.desc, limit=1: the rows that may come first
NewestRows(logs, c) ==
    {i \in AuthRows(logs, c) :
        \A j \in AuthRows(logs, c) : logs[j].created_at <= logs[i].created_at}

\* The lookup without the vapi_call_id filter: the newest authentication of any call.
get_session_context_of_any_call(logs, c, ok) ==
    LET rows == {i \in DOMAIN logs : logs[i].interaction_type = "authentication"}
    IN  IF ~ok \/ rows = {} THEN {NoSession}
        ELSE {SessionOfRow(logs[i]) : i \in rows}

\* The lookup answering from the rows whatever became of the request.
get_session_context_unguarded(logs, c, ok) ==
    IF AuthRows(logs, c) = {}
    THEN {NoSession}
    ELSE {SessionOfRow(logs[i]) : i \in NewestRows(logs, c)}

\* The lookup with a filter on another interaction type: no authentication is found.
get_session_context_of_other_type(logs, c, ok) ==
    LET rows == {i \in DOMAIN logs :
                    logs[i].vapi_call_id = c /\ logs[i].interaction_type = "session"}
    IN  IF ~ok \/ rows = {} THEN {NoSession}
        ELSE {SessionOfRow(logs[i]) : i \in rows}

\* The values get_session_context_by_call_id may return; ok: the store answers 200
\* (~ok: another status, or an exception, which the except clause turns into None).
get_session_context_by_call_id(logs, c, ok) ==
    IF ~ok \/ AuthRows(logs, c) = {}
    THEN {NoSession}
    ELSE {SessionOfRow(logs[i]) : i \in NewestRows(logs, c)}

\* The row the store inserts for a POST to vapi_logs; created_at defaults to the
\* store's now() when the client sends none (0).
InsertedRow(log_data, now) ==
    [vapi_call_id |-> log_data.vapi_call_id,
     interaction_type |-> log_data.interaction_type,
     tenant_id |-> log_data.tenant_id,
     user_id |-> log_data.user_id,
     caller_phone |-> log_data.caller_phone,
     raw_log_data |-> log_data.raw_log_data,
     transcript |-> None,
     created_at |-> IF log_data.created_at = 0 THEN now ELSE log_data.created_at]

\* The clock that created_at is read from, by the service (datetime.utcnow()) and by
\* the store (now()).  Timestamps are only ever compared with each other (order by
\* created_at desc), so the model keeps their order and not their distance: a reading
\* is the least value after every timestamp still held in a row or by a turn in
\* flight, and the timestamps are renumbered 1..n in order when one of them is dropped.
RECURSIVE MaxOf(_)
MaxOf(S) ==
    IF S = {} THEN 0
    ELSE LET x == CHOOSE y \in S : TRUE
             m == MaxOf(S \ {x})
         IN  IF x > m THEN x ELSE m

\* the timestamps held by the rows and by the turns in flight
Stamps(logs, pending) ==
    ({logs[i].created_at : i \in DOMAIN logs}
        \cup {turn.log_data.created_at : turn \in pending}) \ {0}

Now(logs, pending) == 1 + MaxOf(Stamps(logs, pending))

\* the position of timestamp t among the timestamps S; 0 stays "not set"
Rank(S, t) == IF t = 0 THEN 0 ELSE Cardinality({x \in S : x <= t})

\* rows, resp. turns in flight, with their timestamps renumbered in order
RankRows(logs, S) ==
    [i \in DOMAIN logs |-> [logs[i] EXCEPT !.created_at = Rank(S, @)]]

RankTurns(pending, S) ==
    {[turn EXCEPT !.log_data.created_at = Rank(S, @)] : turn \in pending}

\* An entry of the history: the row as it was inserted, and whether its created_at
\* was set by the service before the POST (client_stamped) or by the store.
Written(row, client_stamped) == row @@ [client_stamped |-> client_stamped]

\* the identity an event carries
Identity(e) ==
    [tenant_id |-> e.tenant_id, user_id |-> e.user_id, caller_phone |-> e.caller_phone]

(***************************************************************************)
(* authenticate_by_phone                                                   *)
(***************************************************************************)
\* The three implementations of the handler.
AuthImpls == {"authentication", "voice_notes", "main"}

TestNumber == "+61412345678"

\* vapi_call_id as the handler derives it
AuthCallId(req) ==
    IF ~Falsy(req.call) THEN req.call
    ELSE IF req.argCall = Absent THEN "unknown" ELSE req.argCall

\* caller_phone after the fallbacks; None: the handler refuses the turn
AuthPhone(impl, phone, testDefault) ==
    IF ~Falsy(phone) THEN phone
    ELSE IF impl = "authentication"
         THEN (IF Falsy(testDefault) THEN None ELSE testDefault)
         ELSE TestNumber

\* select ... from users where phone_number = p and is_active
ActiveUsers(p) ==
    SelectSeq(UsersTable, LAMBDA u : u.phone_number = p /\ u.is_active)

\* the details dictionary logged with the event
AuthDetails(user) ==
    [user_name |-> user.name, tenant_name |-> user.tenant_name, auth_success |-> TRUE]

\* log_data as log_vapi_interaction builds it; main.py stamps created_at itself
AuthLogData(impl, callId, user, phone, now) ==
    [vapi_call_id |-> callId,
     user_id |-> user.id,
     tenant_id |-> user.tenant_id,
     caller_phone |-> phone,
     raw_log_data |-> AuthDetails(user),
     interaction_type |-> "authentication",
     created_at |-> IF impl = "main" THEN now ELSE 0]

AuthDenied(tcid, callId, msg) ==
    [handler |-> "authenticate_by_phone", toolCallId |-> tcid, vapi_call_id |-> callId,
     result |-> [authorized |-> FALSE, message |-> msg]]

\* user['name'].split()[0] for the users of UsersTable
FirstNames == [u1 |-> "Ann", u2 |-> "Bo", u3 |-> "Cy"]

\* ", ".join(names), as the pieces of the string
RECURSIVE JoinComma(_)
JoinComma(names) ==
    IF names = <<>> THEN <<>>
    ELSE IF Len(names) = 1 THEN names
    ELSE <<names[1], ", ">> \o JoinComma(Tail(names))

\* skill_names[-1] of an empty list is an IndexError; only authentication/endpoints.py
\* has a branch for no skills before it
GreetingRaises(impl, skill_names) == impl # "authentication" /\ skill_names = <<>>

\* greeting, as the pieces the f-strings put together
Greeting(impl, first_name, skill_names) ==
    IF impl = "authentication" /\ skill_names = <<>>
    THEN <<"Hi ", first_name,
           "! I don't have any skills configured for you yet. Please contact support.">>
    ELSE IF Len(skill_names) = 1
    THEN IF impl = "authentication"
         THEN <<"Hi ", first_name, "! Ready for ", skill_names[1], "? Let's get started.">>
         ELSE <<"Hi ", first_name, "! Ready for voice notes? Let me connect you right away.">>
    ELSE IF Len(skill_names) = 2
    THEN <<"Hi ", first_name, "! I can help you with ", skill_names[1], " or ",
           skill_names[2], ". What would you like to do?">>
    ELSE <<"Hi ", first_name, "! I can help you with ">>
         \o JoinComma(SubSeq(skill_names, 1, Len(skill_names) - 1))
         \o <<", or ", skill_names[Len(skill_names)], ". What would you like to do?">>

\* The reply of a turn that found its user; skills: the names of the user's enabled
\* skills in the order the store returns them (none also when the store does not answer
\* 200).  enabled_skills records that input next to the result.
AuthGranted(impl, tcid, callId, user, skills) ==
    [handler |-> "authenticate_by_phone", toolCallId |-> tcid, vapi_call_id |-> callId,
     enabled_skills |-> skills,
     result |->
        IF GreetingRaises(impl, skills)
        THEN [authorized |-> FALSE, message |-> "Authentication system error"]
        ELSE [authorized |-> TRUE, user_id |-> user.id, user_name |-> user.name,
              first_name |-> FirstNames[user.id],
              tenant_name |-> user.tenant_name, phone_number |-> user.phone_number,
              greeting_message |-> Greeting(impl, FirstNames[user.id], skills),
              available_skills |-> [i \in DOMAIN skills |-> [skill_name |-> skills[i]]],
              skill_count |-> Len(skills),
              single_skill_mode |-> Len(skills) = 1]]

\* The turn up to its await in log_vapi_interaction, or to its early return.
authenticate_by_phone(impl, req, phone, testDefault, usersOk, skills) ==
    LET tcid == ExtractToolCallId(req)
        callId == AuthCallId(req)
        p == AuthPhone(impl, phone, testDefault)
        users == IF p = None THEN <<>> ELSE ActiveUsers(p)
    IN  /\ UNCHANGED <<vapi_logs, recorded, active, tableVars, extractVars, setupVars>>
        /\ IF p = None
           THEN /\ last' = AuthDenied(tcid, callId, "Phone number is required for authentication")
                /\ UNCHANGED inflight
           ELSE IF ~usersOk
           THEN /\ last' = AuthDenied(tcid, callId, "System error during authentication")
                /\ UNCHANGED inflight
           ELSE IF users = <<>>
           THEN /\ last' = AuthDenied(tcid, callId, "Phone number not found or not authorized")
                /\ UNCHANGED inflight
           ELSE /\ Len(vapi_logs) + Cardinality(inflight) < MaxLogs
                /\ inflight' = inflight \cup
                      {[log_data |-> AuthLogData(impl, callId, users[1], p,
                                                 Now(vapi_logs, inflight)),
                        reply |-> AuthGranted(impl, tcid, callId, users[1], skills)]}
                /\ UNCHANGED last

\* log_vapi_interaction letting the failure of its POST reach the turn's except clause
log_vapi_interaction_raising(turn, ok) ==
    /\ inflight' = inflight \ {turn}
    /\ last' = IF ok THEN turn.reply
               ELSE AuthDenied(turn.reply.toolCallId, turn.reply.vapi_call_id,
                               "Authentication system error")
    /\ UNCHANGED <<vapi_logs, recorded, active, tableVars, extractVars, setupVars>>

\* The POST of log_vapi_interaction completes (ok: status 201; ~ok: another status, or an
\* exception, which its except clause swallows) and the turn replies.
log_vapi_interaction(turn, ok) ==
    LET pending == inflight \ {turn}
        row == InsertedRow(turn.log_data, Now(vapi_logs, inflight))
        rows == IF ok THEN Append(vapi_logs, row) ELSE vapi_logs
        history == IF ok
                   THEN Append(recorded, Written(row, turn.log_data.created_at # 0))
                   ELSE recorded
        held == Stamps(rows, pending)
    IN  /\ inflight' = RankTurns(pending, held)
        /\ vapi_logs' = RankRows(rows, held)
        /\ recorded' = RankRows(history, held)
        /\ last' = turn.reply
        /\ UNCHANGED <<active, tableVars, extractVars, setupVars>>

(***************************************************************************)
(* start_skill_session: a row of vapi_logs that is no authentication event *)
(***************************************************************************)
start_skill_session(tenant, callId) ==
    /\ Len(vapi_logs) + Cardinality(inflight) < MaxLogs
    /\ vapi_logs' = Append(vapi_logs,
          InsertedRow([vapi_call_id |-> callId, user_id |-> None, tenant_id |-> tenant,
                       caller_phone |-> None,
                       raw_log_data |-> [session_started |-> Now(vapi_logs, inflight)],
                       interaction_type |-> None, created_at |-> 0],
                      Now(vapi_logs, inflight)))
    /\ recorded' = Append(recorded, Written(vapi_logs'[Len(vapi_logs')], FALSE))
    /\ last' = [handler |-> "start_skill_session", toolCallId |-> None,
                vapi_call_id |-> callId, result |-> [status |-> "started"]]
    /\ UNCHANGED <<inflight, active, tableVars, extractVars, setupVars>>

(***************************************************************************)
(* handle_end_of_call_report                                               *)
(***************************************************************************)
\* PATCH vapi_logs?vapi_call_id=eq.call_id
PatchLogs(logs, callId) ==
    [i \in DOMAIN logs |->
        IF logs[i].vapi_call_id = callId
        THEN [logs[i] EXCEPT !.transcript = "full_transcript",
                             !.raw_log_data = [message |-> [id |-> callId]]]
        ELSE logs[i]]

\* full_transcript as the report's messages give it
EndTranscript == <<"U", "s", "e", "r", ":", " ", "b", "y", "e", "\n">>

\* PATCH <table>?vapi_call_id=eq.call_id with the transcript
PatchTranscript(table, callId, column) ==
    [i \in DOMAIN table |->
        IF table[i].vapi_call_id = callId
        THEN [table[i] EXCEPT ![column] = EndTranscript]
        ELSE table[i]]

handle_end_of_call_report(callId, ok) ==
    /\ UNCHANGED <<inflight, recorded, active, extractVars, setupVars>>
    /\ IF Falsy(callId)
       THEN /\ last' = [handler |-> "handle_end_of_call_report", toolCallId |-> None,
                        vapi_call_id |-> callId,
                        result |-> [success |-> FALSE, error |-> "Missing call ID"]]
            /\ UNCHANGED <<vapi_logs, site_progress_updates, voice_notes>>
       ELSE IF ~ok
       THEN /\ last' = [handler |-> "handle_end_of_call_report", toolCallId |-> None,
                        vapi_call_id |-> callId,
                        result |-> [success |-> FALSE, error |-> "Failed to store transcript"]]
            /\ UNCHANGED <<vapi_logs, site_progress_updates, voice_notes>>
       ELSE /\ vapi_logs' = PatchLogs(vapi_logs, callId)
            /\ site_progress_updates' =
                  PatchTranscript(site_progress_updates, callId, "raw_transcript")
            /\ voice_notes' = PatchTranscript(voice_notes, callId, "full_transcript")
            /\ last' = [handler |-> "handle_end_of_call_report", toolCallId |-> None,
                        vapi_call_id |-> callId, result |-> [success |-> TRUE]]

(***************************************************************************)
(* Entity Resolver                                                         *)
(***************************************************************************)
\* select id,name,identifier,address from entities
\*   where tenant_id = tenant and entity_type = sites and is_active
TenantSites(tenant, activeIds) ==
    SelectSeq(EntitiesTable, LAMBDA e : e.tenant_id = tenant /\ e.id \in activeIds)

\* The completion service's answer to the site-matching prompt.
\*   http_error: a status other than 200;   transport_error: the POST raises;
\*   bad_shape: 200 with a body that has no choices[0].message.content;
\*   not_json: the content is not JSON;   json_other: JSON that is no object;
\*   json_object: an object with site_found in {"true","false",Absent} and site_id.
SiteMatchAnswers ==
    [kind : {"http_error", "transport_error", "bad_shape", "not_json", "json_other"}]
    \cup [kind : {"json_object"},
          site_found : {"true", "false", Absent},
          site_id : {"s1", "s3", "s9", None, Absent}]

NoAnswer == [kind |-> "not_called"]

\* The match taken from the completion service's word, without the lookup.
MatchingSiteUnchecked(sites, matched_site_id) ==
    <<[id |-> matched_site_id, tenant_id |-> None, name |-> "unverified"]>>

\* next((site for site in sites if site["id"] == matched_site_id), None)
MatchingSite(sites, matched_site_id) ==
    LET hits == SelectSeq(sites, LAMBDA site : site.id = matched_site_id)
    IN  IF hits = <<>> THEN <<>> ELSE <<hits[1]>>

\* the sites_list entries built for the assistant
SiteListForAssistant(sites) ==
    [i \in DOMAIN sites |-> [site_id |-> sites[i].id, site_name |-> sites[i].name]]

\* the clarification sized to 1 / 2 / 3+ candidates
Suggestion(sites) ==
    IF Len(sites) = 1 THEN "Did you mean {0}?"
    ELSE IF Len(sites) = 2 THEN "Did you mean {0} or {1}?"
    ELSE "Your available sites are: {names}."

\* A resolution that settles for the first candidate when the answer is no JSON.
ResolveSiteFirstOnParseError(sites, answer) ==
    CASE answer.kind = "http_error" -> [tag |-> "http"]
      [] answer.kind = "not_json" -> [tag |-> "found", site |-> sites[1]]
      [] answer.kind = "json_object" /\ answer.site_found = "true"
            /\ answer.site_id # Absent /\ MatchingSite(sites, answer.site_id) # <<>> ->
            [tag |-> "found", site |-> MatchingSite(sites, answer.site_id)[1]]
      [] answer.kind = "json_object" /\ answer.site_found = "true"
            /\ answer.site_id = Absent -> [tag |-> "error"]
      [] answer.kind = "json_object" -> [tag |-> "not_found"]
      [] OTHER -> [tag |-> "error"]

\* What one resolution of a non-empty description yields:
\*   [tag |-> "error"]     an exception reaches the handler's except clause
\*   [tag |-> "http"]      the completion service answered with a status other than 200
\*   [tag |-> "parse"]     json.JSONDecodeError
\*   [tag |-> "found", site |-> s]   the validation gate accepted s
\*   [tag |-> "not_found"] everything else
ResolveSite(sites, answer) ==
    CASE answer.kind = "http_error" -> [tag |-> "http"]
      [] answer.kind = "transport_error" -> [tag |-> "error"]
      [] answer.kind = "bad_shape" -> [tag |-> "error"]
      [] answer.kind = "not_json" -> [tag |-> "parse"]
      [] answer.kind = "json_other" -> [tag |-> "error"]
      [] answer.kind = "json_object" ->
            IF answer.site_found = "true"
            THEN IF answer.site_id = Absent
                 THEN [tag |-> "error"]
                 ELSE LET m == MatchingSite(sites, answer.site_id)
                      IN  IF m # <<>> THEN [tag |-> "found", site |-> m[1]]
                          ELSE [tag |-> "not_found"]
            ELSE [tag |-> "not_found"]

(***************************************************************************)
(* The turns that read the session                                         *)
(***************************************************************************)
\* message.call present without an id: request["message"]["call"]["id"] is a KeyError
NoId == "NoId"

\* The request shapes of the reading turns: a call that may have authenticated, a call
\* that never did, no call object with and without the vapi_call_id argument, and a
\* call object without id.
TurnRequests ==
    {Request("c1", "tc1", Absent), Request("c2", "tc1", Absent),
     Request(Absent, "tc1", "c1"), Request(Absent, Absent, Absent),
     Request(NoId, "tc1", Absent)}

\* vapi_call_id of a turn that falls back to the tool call id
TurnCallId(req) == IF ~Falsy(req.call) THEN req.call ELSE ExtractToolCallId(req)

\* What the turn gets from get_session_context_by_call_id for call id c; a turn whose
\* request has a call object without id never gets that far.
SessionsFor(req, c, storeOk) ==
    IF req.call = NoId THEN {NoSession}
    ELSE get_session_context_by_call_id(vapi_logs, c, storeOk)

\* What a turn did, next to its reply:
\*   store_ok: whether the session store answered;  session: what the lookup for
\*   vapi_call_id returns;  completion_calls: requests sent to the completion service;
\*   inserts: domain records stored;  raised: an exception left the handler.
Turn(handler, tcid, callId, storeOk, session, calls, inserts, raised, result) ==
    [handler |-> handler, toolCallId |-> tcid, vapi_call_id |-> callId,
     store_ok |-> storeOk, session |-> session, completion_calls |-> calls,
     inserts |-> inserts, raised |-> raised, result |-> result]

(***************************************************************************)
(* identify_site_for_update                                                *)
(***************************************************************************)
SiteDescriptions ==
    {PyAbsent, PyNone, PyStr(<<>>), PyStr(<<" ", " ">>), PyStr(<<"o", "c", "e", "a", "n">>)}

\* not site_description or site_description.strip() == ""
NoDescription(d) == ~Truthy(d) \/ Strip(d.v) = <<>>

\* The reply of identify_site_for_update and what the turn did on the way:
\*   description: the site_description argument;  sites: the candidates fetched;
\*   answer: the completion service's answer, NoAnswer when it was not called.
IdentifySiteTurn(req, description, storeOk, session, sitesOk, activeIds, answer) ==
    LET tcid == ExtractToolCallId(req)
        callId == IF req.call = NoId THEN None ELSE TurnCallId(req)
        site_description == ArgGet(description, PyStr(<<>>))
        fetched == IF session.found /\ sitesOk
                   THEN TenantSites(session.tenant_id, activeIds) ELSE <<>>
        asked == session.found /\ fetched # <<>> /\ ~NoDescription(site_description)
        outcome == IF asked THEN ResolveSite(fetched, answer) ELSE [tag |-> "none"]
        failure == [site_identified |-> FALSE,
                    error |-> "System error: {e}",
                    message |-> "I'm having trouble processing that. Please try again."]
        result ==
            IF req.call = NoId
            THEN failure
            ELSE IF ~session.found
            THEN [site_identified |-> FALSE,
                  error |-> "Session not found. Please authenticate first.",
                  message |-> "I couldn't find your session. Please try calling again."]
            ELSE IF fetched = <<>>
            THEN [site_identified |-> FALSE,
                  message |-> "I couldn't find any active sites for your account. Please contact support."]
            ELSE IF NoDescription(site_description)
            THEN [site_identified |-> FALSE,
                  sites_list |-> SiteListForAssistant(fetched),
                  message |-> "You have {len(sites)} sites available for updates."]
            ELSE CASE outcome.tag = "http" ->
                        [site_identified |-> FALSE,
                         message |-> "I'm having trouble matching that to a site. Could you be more specific?"]
                   [] outcome.tag = "parse" ->
                        [site_identified |-> FALSE,
                         message |-> "I'm having trouble understanding which site you mean. Can you tell me the site name?"]
                   [] outcome.tag = "found" ->
                        [site_identified |-> TRUE,
                         site_id |-> outcome.site.id,
                         site_name |-> outcome.site.name,
                         message |-> "Great! Let's record an update for {name}."]
                   [] outcome.tag = "not_found" ->
                        [site_identified |-> FALSE,
                         message |-> "I couldn't match that to a site. {suggestion}",
                         suggestion |-> Suggestion(fetched)]
                   [] outcome.tag = "error" -> failure
    IN  Turn("identify_site_for_update", tcid, callId, storeOk, session,
             IF asked THEN 1 ELSE 0, 0, FALSE, result)
        @@ [description |-> description,
            sites |-> fetched,
            answer |-> IF asked THEN answer ELSE NoAnswer]

identify_site_for_update(req, description, storeOk, sitesOk, answer) ==
    /\ \E session \in SessionsFor(req, TurnCallId(req), storeOk) :
          last' = IdentifySiteTurn(req, description, storeOk, session, sitesOk, active, answer)
    /\ UNCHANGED <<vapi_logs, inflight, recorded, active, tableVars, extractVars, setupVars>>

(***************************************************************************)
(* identify_voice_note_context                                             *)
(***************************************************************************)
SiteKeywords ==
    << <<"s", "i", "t", "e">>,
       <<"p", "r", "o", "j", "e", "c", "t">>,
       <<"c", "o", "n", "s", "t", "r", "u", "c", "t", "i", "o", "n">>,
       <<"b", "u", "i", "l", "d", "i", "n", "g">>,
       <<"h", "o", "u", "s", "e">>,
       <<"o", "f", "f", "i", "c", "e">> >>

UserInputs ==
    {PyAbsent, PyNone, PyStr(<<"m", "e", "m", "o">>),
     PyStr(<<"O", "c", "e", "a", "n", " ", "S", "i", "t", "e">>)}

\* select name from tenants where id = tenant
CompanyName(tenant, tenantsOk, default) ==
    IF tenantsOk /\ tenant \in DOMAIN TenantNames THEN TenantNames[tenant] ELSE default

IdentifyContextTurn(req, input, storeOk, session, tenantsOk, sitesOk, activeIds, answer) ==
    LET tcid == ExtractToolCallId(req)
        callId == IF req.call = NoId THEN None ELSE TurnCallId(req)
        user_input == ArgGet(input, PyStr(<<>>))
        company_name == IF session.found
                        THEN CompanyName(session.tenant_id, tenantsOk, "your company")
                        ELSE None
        \* user_input.lower() on a value that is no string
        no_lower == session.found /\ user_input.t # "str"
        is_site_specific ==
            session.found /\ ~no_lower /\ AnyWordIn(SiteKeywords, Lower(user_input.v))
        fetched == IF is_site_specific /\ sitesOk
                   THEN TenantSites(session.tenant_id, activeIds) ELSE <<>>
        asked == fetched # <<>>
        outcome == IF asked THEN ResolveSite(fetched, answer) ELSE [tag |-> "none"]
        General(msg) ==
            [context_identified |-> TRUE, note_type |-> "general", message |-> msg,
             company_name |-> company_name, site_id |-> None]
        excepted == req.call = NoId \/ no_lower \/ outcome.tag = "error"
        result ==
            IF excepted
            THEN [context_identified |-> FALSE,
                  error |-> "System error: {e}",
                  message |-> "I'm having trouble processing that. Let me record this as a general note."]
            ELSE IF ~session.found
            THEN [context_identified |-> FALSE,
                  error |-> "Call session not found. Please try calling again.",
                  message |-> "I couldn't find your call session. Please try calling again."]
            ELSE IF ~is_site_specific
            THEN General("I'll record a general note for {company_name}.")
            ELSE IF fetched = <<>>
            THEN General("I'll record a general note for {company_name}. No active sites found.")
            ELSE CASE outcome.tag = "http" ->
                        General("I'll record a general note for {company_name}. AI site matching unavailable.")
                   [] outcome.tag = "found" ->
                        [context_identified |-> TRUE,
                         note_type |-> "site_specific",
                         site_id |-> outcome.site.id,
                         site_name |-> outcome.site.name,
                         message |-> "I'll record a note for {site_name} at {company_name}.",
                         company_name |-> company_name]
                   [] OTHER -> General("I'll record a general note for {company_name}.")
    IN  Turn("identify_voice_note_context", IF excepted THEN "unknown" ELSE tcid, callId,
             storeOk, session, IF asked THEN 1 ELSE 0, 0, FALSE, result)
        @@ [sites |-> fetched,
            answer |-> IF asked THEN answer ELSE NoAnswer]

identify_voice_note_context(req, input, storeOk, tenantsOk, sitesOk, answer) ==
    /\ \E session \in SessionsFor(req, TurnCallId(req), storeOk) :
          last' = IdentifyContextTurn(req, input, storeOk, session, tenantsOk, sitesOk,
                                      active, answer)
    /\ UNCHANGED <<vapi_logs, inflight, recorded, active, tableVars, extractVars, setupVars>>

(***************************************************************************)
(* Update Extraction Pipeline: SiteUpdateProcessor                         *)
(***************************************************************************)
\* the keys of update_data, in insertion order
FieldOrder ==
    <<"main_focus", "is_wet_weather_closure", "materials_delivered", "work_progress",
      "issues", "delays", "staffing", "site_visitors", "site_conditions",
      "follow_up_actions", "raw_transcript">>

UrgentWords ==
    << <<"u", "r", "g", "e", "n", "t">>,
       <<"c", "r", "i", "t", "i", "c", "a", "l">>,
       <<"e", "m", "e", "r", "g", "e", "n", "c", "y">>,
       <<"i", "m", "m", "e", "d", "i", "a", "t", "e">> >>
SafetyWords ==
    << <<"s", "a", "f", "e", "t", "y">>,
       <<"h", "a", "z", "a", "r", "d">>,
       <<"i", "n", "j", "u", "r", "y">>,
       <<"d", "a", "n", "g", "e", "r", "o", "u", "s">>,
       <<"u", "n", "s", "a", "f", "e">> >>
DelayWords ==
    << <<"d", "e", "l", "a", "y">>,
       <<"b", "e", "h", "i", "n", "d">>,
       <<"p", "o", "s", "t", "p", "o", "n", "e">>,
       <<"r", "e", "s", "c", "h", "e", "d", "u", "l", "e">> >>
MaterialWords ==
    << <<"m", "a", "t", "e", "r", "i", "a", "l">>,
       <<"d", "e", "l", "i", "v", "e", "r", "y">>,
       <<"s", "u", "p", "p", "l", "y">>,
       <<"s", "h", "o", "r", "t", "a", "g", "e">> >>

\* str(v), as an f-string formats a value
Format(v) ==
    CASE v.t = "none" -> <<"N", "o", "n", "e">>
      [] v.t = "bool" -> IF v.v THEN <<"T", "r", "u", "e">> ELSE <<"F", "a", "l", "s", "e">>
      [] v.t = "str" -> v.v

\* update_data.get(key, default): the default only when the key is missing
DictGet(d, key, default) == IF d[key].t = "absent" THEN PyStr(default) ELSE d[key]

\* [str(v) for v in update_data.values() if v and isinstance(v, str)]
RECURSIVE StringValues(_, _)
StringValues(d, keys) ==
    IF keys = <<>> THEN <<>>
    ELSE LET v == d[Head(keys)]
         IN  (IF v.t = "str" /\ v.v # <<>> THEN <<v.v>> ELSE <<>>)
             \o StringValues(d, Tail(keys))

\* The join without .lower(): a case-sensitive match.
TextContentCaseSensitive(d) == JoinSpace(StringValues(d, FieldOrder))

\* " ".join(...).lower()
TextContent(d) == Lower(JoinSpace(StringValues(d, FieldOrder)))

_get_fallback_processing(d) ==
    LET text_content == TextContent(d)
    IN  [summary_brief |->
            PyStr(<<"S", "i", "t", "e", " ", "u", "p", "d", "a", "t", "e", " ", "r", "e", "c", "o", "r", "d", "e", "d", " ", "f", "o", "r", " ">>
                  \o Format(DictGet(d, "main_focus", <<"g", "e", "n", "e", "r", "a", "l", " ", "p", "r", "o", "g", "r", "e", "s", "s">>))),
         summary_detailed |->
            PyStr(<<"M", "a", "i", "n", " ", "f", "o", "c", "u", "s", ":", " ">>
                  \o Format(DictGet(d, "main_focus", <<"N", "/", "A">>))
                  \o <<".", " ", "W", "o", "r", "k", " ", "p", "r", "o", "g", "r", "e", "s", "s", ":", " ">>
                  \o Format(DictGet(d, "work_progress", <<"N", "/", "A">>))
                  \o <<".", " ", "I", "s", "s", "u", "e", "s", ":", " ">>
                  \o Format(DictGet(d, "issues", <<"N", "o", "n", "e", " ", "r", "e", "p", "o", "r", "t", "e", "d">>))
                  \o <<".">>),
         has_urgent_issues |-> PyBool(AnyWordIn(UrgentWords, text_content)),
         has_safety_concerns |-> PyBool(AnyWordIn(SafetyWords, text_content)),
         has_delays |-> PyBool(AnyWordIn(DelayWords, text_content)),
         has_material_issues |-> PyBool(AnyWordIn(MaterialWords, text_content)),
         extracted_action_items |-> PyList(<<>>),
         identified_blockers |-> PyList(<<>>),
         flagged_concerns |-> PyList(<<>>)]

\* An extraction the completion service returns with every declared key.
FullExtraction ==
    [summary_brief |-> PyStr(<<"b">>),
     summary_detailed |-> PyStr(<<"d">>),
     has_urgent_issues |-> PyBool(TRUE),
     has_safety_concerns |-> PyBool(FALSE),
     has_delays |-> PyBool(FALSE),
     has_material_issues |-> PyBool(FALSE),
     extracted_action_items |-> PyList(<<"action">>),
     identified_blockers |-> PyList(<<>>),
     flagged_concerns |-> PyList(<<>>)]

\* The JSON values the completion service may answer with: the declared object, the
\* object with a list null, with a list missing, the empty object, null and an array.
ExtractionJson ==
    {PyDict(FullExtraction),
     PyDict([FullExtraction EXCEPT !.identified_blockers = PyNone]),
     PyDict([k \in DOMAIN FullExtraction \ {"flagged_concerns"} |-> FullExtraction[k]]),
     PyDict([summary_brief |-> PyStr(<<"b">>)]),
     PyNone,
     PyList(<<>>)}

\* The completion service's answer to the extraction prompt.
\*   transport_error: the POST raises or times out;  http_error: a status other than 200;
\*   bad_shape: 200 with a body that has no choices[0].message.content;
\*   content_none: the content is null;  not_json: the content is not JSON;
\*   json: the content parses to value.
ExtractionFailures ==
    [kind : {"transport_error", "http_error", "bad_shape", "content_none", "not_json"}]

ExtractionAnswers ==
    ExtractionFailures \cup [kind : {"json"}, value : ExtractionJson]

\* process_update with an except clause that catches transport errors only: a body of
\* unexpected shape leaves it as KeyError or TypeError.
process_update_uncaught(d, answer) ==
    CASE answer.kind = "json" -> [raised |-> FALSE, value |-> answer.value]
      [] answer.kind \in {"bad_shape", "content_none"} -> [raised |-> TRUE, value |-> PyNone]
      [] OTHER -> [raised |-> FALSE, value |-> PyDict(_get_fallback_processing(d))]

\* What process_update does: it returns value, or an exception leaves it (raised).
process_update(d, answer) ==
    CASE answer.kind = "http_error" ->
            [raised |-> FALSE, value |-> PyDict(_get_fallback_processing(d))]
      [] answer.kind = "json" ->
            [raised |-> FALSE, value |-> answer.value]
      [] answer.kind = "not_json" ->
            [raised |-> FALSE, value |-> PyDict(_get_fallback_processing(d))]
      \* KeyError, TypeError, httpx errors: except Exception
      [] OTHER ->
            [raised |-> FALSE, value |-> PyDict(_get_fallback_processing(d))]

\* update_data as save_site_progress_update builds it around a transcript
UpdateData(main_focus, issues, raw_transcript) ==
    [k \in {FieldOrder[i] : i \in DOMAIN FieldOrder} |->
        CASE k = "main_focus" -> main_focus
          [] k = "issues" -> issues
          [] k = "raw_transcript" -> raw_transcript
          [] k = "is_wet_weather_closure" -> PyBool(FALSE)
          [] OTHER -> PyNone]

(***************************************************************************)
(* save_site_progress_update                                               *)
(***************************************************************************)
\* msg.get("content", "") or msg.get("message", "")
ContentOf(msg) == IF msg.content # <<>> THEN msg.content ELSE msg.message

\* the tagged transcript built from the messages
RECURSIVE TaggedTranscript(_)
TaggedTranscript(messages) ==
    IF messages = <<>> THEN <<>>
    ELSE LET msg == Head(messages)
             line == IF ContentOf(msg) = <<>> THEN <<>>
                     ELSE IF msg.role = "user"
                          THEN <<"U", "s", "e", "r", ":", " ">> \o ContentOf(msg) \o <<"\n">>
                     ELSE IF msg.role = "assistant"
                          THEN <<"A", "s", "s", "i", "s", "t", "a", "n", "t", ":", " ">>
                               \o ContentOf(msg) \o <<"\n">>
                     ELSE <<>>
         IN  line \o TaggedTranscript(Tail(messages))

\* real_transcript: the tagged transcript, else the raw_notes argument
RealTranscript(messages, raw_notes) ==
    IF TaggedTranscript(messages) # <<>> THEN TaggedTranscript(messages) ELSE raw_notes

\* vapi_call_id: message.call.id, else args.get("vapi_call_id", tool_call_id)
SaveUpdateCallId(req) ==
    IF ~Falsy(req.call) THEN req.call
    ELSE IF req.argCall = Absent THEN ExtractToolCallId(req) ELSE req.argCall

\* select id,name from entities where id = site_id and tenant_id = tenant and
\* entity_type = sites
SiteCheck(site_id, tenant) ==
    SelectSeq(EntitiesTable, LAMBDA e : e.id = site_id /\ e.tenant_id = tenant)

\* str(uuid.uuid4()): an id no stored record has
RECURSIVE MaxId(_)
MaxId(table) ==
    IF table = <<>> THEN 0
    ELSE LET m == MaxId(Tail(table))
         IN  IF Head(table).id > m THEN Head(table).id ELSE m

FreshId == 1 + MaxId(site_progress_updates \o voice_notes)

\* {id, site_id, user_id, tenant_id, vapi_call_id, raw_transcript, **ai_processed,
\*  processing_status}: a later key replaces an earlier one
CompleteUpdate(update_id, site_id, session, callId, real_transcript, ai_processed) ==
    [processing_status |-> "completed"]
    @@ ai_processed
    @@ [id |-> update_id, site_id |-> site_id, user_id |-> session.user_id,
        tenant_id |-> session.tenant_id, vapi_call_id |-> callId,
        raw_transcript |-> real_transcript]

\* ai_processed.get(key, False)
FlagOf(ai_processed, key) ==
    IF key \in DOMAIN ai_processed THEN ai_processed[key] ELSE PyBool(FALSE)

\* The reply of save_site_progress_update, what the turn did, and the rows it stored.
SaveUpdateTurn(req, site_id, messages, raw_notes, storeOk, session, answer, checkOk, insertOk, update_id) ==
    LET tcid == ExtractToolCallId(req)
        callId == IF req.call = NoId THEN None ELSE SaveUpdateCallId(req)
        real_transcript == RealTranscript(messages, raw_notes)
        update == UpdateData(PyNone, PyNone, PyStr(real_transcript))
        ai_processed == process_update(update, answer).value
        site_check == IF checkOk THEN SiteCheck(site_id, session.tenant_id) ELSE <<>>
        \* next to the turn: the arguments it was given and, once the extraction
        \* pipeline was called, the transcript sent to it
        Reply(calls, rows, result) ==
            [turn |-> Turn("save_site_progress_update", tcid, callId, storeOk, session,
                           calls, Len(rows), FALSE, result)
                      @@ [arguments_ok |-> ~Falsy(site_id), site_id |-> site_id,
                          messages |-> messages, raw_notes |-> raw_notes,
                          sent |-> IF calls = 0 THEN <<>> ELSE update["raw_transcript"].v],
             rows |-> rows]
    IN  IF req.call = NoId
        THEN [turn |-> Turn("save_site_progress_update", tcid, callId, storeOk, session,
                            0, 0, TRUE, [success |-> FALSE])
                       @@ [arguments_ok |-> ~Falsy(site_id), site_id |-> site_id,
                           messages |-> messages, raw_notes |-> raw_notes, sent |-> <<>>],
              rows |-> <<>>]
        ELSE IF Falsy(site_id)
        THEN Reply(0, <<>>, [success |-> FALSE, error |-> "Site ID is required",
                             message |-> "I need to know which site this update is for."])
        ELSE IF ~session.found
        THEN Reply(0, <<>>, [success |-> FALSE, error |-> "Session not found",
                             message |-> "I couldn't find your session. Please try calling again."])
        ELSE IF ai_processed.t # "dict"
        \* **ai_processed on a value that is no mapping: TypeError
        THEN Reply(1, <<>>, [success |-> FALSE, error |-> "System error: {e}",
                             message |-> "I'm having trouble saving your update. Please try again."])
        ELSE IF site_check = <<>>
        THEN Reply(1, <<>>, [success |-> FALSE, error |-> "Site not found or access denied",
                             message |-> "I couldn't verify that site. Please try again."])
        ELSE IF ~insertOk
        THEN Reply(1, <<>>, [success |-> FALSE, error |-> "Database error: {status}",
                             message |-> "I'm having trouble saving your update. Please try again."])
        ELSE Reply(1,
                   <<CompleteUpdate(update_id, site_id, session, callId, real_transcript,
                                    ai_processed.v)>>,
                   [success |-> TRUE, update_id |-> update_id,
                    site_name |-> site_check[1].name,
                    message |-> "Perfect! I've saved your update for {site_name}.",
                    has_urgent_issues |-> FlagOf(ai_processed.v, "has_urgent_issues"),
                    has_safety_concerns |-> FlagOf(ai_processed.v, "has_safety_concerns")])

save_site_progress_update(req, site_id, messages, raw_notes, storeOk, answer, checkOk, insertOk) ==
    /\ \E session \in SessionsFor(req, SaveUpdateCallId(req), storeOk) :
          LET done == SaveUpdateTurn(req, site_id, messages, raw_notes, storeOk, session,
                                     answer, checkOk, insertOk, FreshId)
          IN  /\ Len(site_progress_updates) + Len(voice_notes) + Len(done.rows) <= MaxRecords
              /\ site_progress_updates' = site_progress_updates \o done.rows
              /\ last' = done.turn
    /\ UNCHANGED <<vapi_logs, inflight, recorded, active, voice_notes, extractVars, setupVars>>

(***************************************************************************)
(* save_voice_note                                                         *)
(***************************************************************************)
\* vapi_call_id: message.call.id, else args.get("vapi_call_id", "unknown"), else the
\* tool call id
SaveNoteCallId(req) ==
    LET c == IF ~Falsy(req.call) THEN req.call
             ELSE IF req.argCall = Absent THEN "unknown" ELSE req.argCall
    IN  IF Falsy(c) THEN ExtractToolCallId(req) ELSE c

\* the length a note is cut to for its summary
SummaryLength == 100

\* note_content[:100] + "..." if len(note_content) > 100 else note_content
NoteSummary(note_content) ==
    IF Len(note_content) > SummaryLength
    THEN SubSeq(note_content, 1, SummaryLength) \o <<".", ".", ".">>
    ELSE note_content

\* select name from entities where id = site_id
SiteNameById(site_id, siteOk) ==
    LET found == SelectSeq(EntitiesTable, LAMBDA e : e.id = site_id)
    IN  IF ~Falsy(site_id) /\ siteOk /\ found # <<>> THEN found[1].name ELSE None

\* The reply of save_voice_note, what the turn did, and the rows it stored.
SaveNoteTurn(req, note_text, note_type, site_id, storeOk, session, tenantsOk, siteOk, insertOk, note_id) ==
    LET tcid == ExtractToolCallId(req)
        callId == IF req.call = NoId THEN None ELSE SaveNoteCallId(req)
        note_content == ArgGet(note_text, PyStr(<<>>))
        site_name == SiteNameById(site_id, siteOk)
        voice_note_data ==
            [id |-> note_id,
             tenant_id |-> session.tenant_id,
             user_id |-> session.user_id,
             site_id |-> IF site_id = Absent THEN None ELSE site_id,
             vapi_call_id |-> callId,
             phone_number |-> session.caller_phone,
             note_type |-> note_type,
             note_content |-> note_content.v,
             note_summary |-> NoteSummary(note_content.v),
             full_transcript |-> <<"V", "o", "i", "c", "e", " ", "n", "o", "t", "e", ":", " ">>
                                 \o note_content.v]
        Reply(rows, raised, result) ==
            [turn |-> Turn("save_voice_note", tcid, callId, storeOk, session, 0,
                           Len(rows), raised, result)
                      @@ [arguments_ok |-> Truthy(note_content), site_id |-> site_id],
             rows |-> rows]
    IN  IF req.call = NoId
        THEN Reply(<<>>, TRUE, [success |-> FALSE])
        ELSE IF ~Truthy(note_content)
        THEN Reply(<<>>, FALSE, [success |-> FALSE, error |-> "Note content is required",
                                 message |-> "I didn't receive any note content to save."])
        ELSE IF ~session.found
        THEN Reply(<<>>, FALSE, [success |-> FALSE, error |-> "Call session not found",
                                 message |-> "I couldn't find your call session. Please try calling again."])
        ELSE IF ~insertOk
        THEN Reply(<<>>, FALSE, [success |-> FALSE, error |-> "Database error: {status}",
                                 message |-> "I'm having trouble saving your note. Please try again."])
        ELSE Reply(<<voice_note_data>>, FALSE,
                   [success |-> TRUE, note_id |-> note_id,
                    message |-> "Perfect! I've saved your voice note{note_location}.",
                    company_name |-> CompanyName(session.tenant_id, tenantsOk, "Unknown Company"),
                    site_name |-> site_name,
                    note_type |-> note_type])

save_voice_note(req, note_text, note_type, site_id, storeOk, tenantsOk, siteOk, insertOk) ==
    /\ \E session \in SessionsFor(req, SaveNoteCallId(req), storeOk) :
          LET done == SaveNoteTurn(req, note_text, note_type, site_id, storeOk, session,
                                   tenantsOk, siteOk, insertOk, FreshId)
          IN  /\ Len(site_progress_updates) + Len(voice_notes) + Len(done.rows) <= MaxRecords
              /\ voice_notes' = voice_notes \o done.rows
              /\ last' = done.turn
    /\ UNCHANGED <<vapi_logs, inflight, recorded, active, site_progress_updates,
                   extractVars, setupVars>>

(***************************************************************************)
(* Python dictionaries that are iterated: items in insertion order         *)
(***************************************************************************)
Keys(items) == {items[i].key : i \in DOMAIN items}

HasKey(items, k) == k \in Keys(items)

\* items.get(k)
Lookup(items, k) ==
    IF HasKey(items, k)
    THEN items[CHOOSE i \in DOMAIN items : items[i].key = k].value
    ELSE None

\* the same dictionary with every key stored again on assignment
SetItemAppending(items, k, v) == Append(items, [key |-> k, value |-> v])

\* items[k] = v: an existing key keeps its place, a new key goes last
SetItem(items, k, v) ==
    IF HasKey(items, k)
    THEN [i \in DOMAIN items |->
             IF items[i].key = k THEN [key |-> k, value |-> v] ELSE items[i]]
    ELSE Append(items, [key |-> k, value |-> v])

\* an update that merges nothing
UpdateNothing(items, other) == items

\* items.update(other)
RECURSIVE Update(_, _)
Update(items, other) ==
    IF other = <<>> THEN items
    ELSE Update(SetItem(items, Head(other).key, Head(other).value), Tail(other))

(***************************************************************************)
(* Skills and assistants                                                   *)
(***************************************************************************)
SkillClasses == {"AuthenticationSkill", "VoiceNotesSkill", "SiteUpdatesSkill"}
AssistantClasses == {"GreeterAssistant", "JillVoiceNotesAssistant", "SiteProgressAssistant"}

\* skill_key as the constructor sets it
SkillKeyOf ==
    [AuthenticationSkill |-> "authentication", VoiceNotesSkill |-> "voice_notes",
     SiteUpdatesSkill |-> "site_updates"]

\* assistant_key as the constructor sets it
AssistantKeyOf ==
    [GreeterAssistant |-> "greeter", JillVoiceNotesAssistant |-> "jill-voice-notes",
     SiteProgressAssistant |-> "site_progress"]

\* the keys of tools_config in create_tools, in order; SiteUpdatesSkill has none
ToolsConfig ==
    [AuthenticationSkill |-> <<"authenticate_caller">>,
     VoiceNotesSkill |-> <<"authenticate_caller", "identify_context", "save_note">>,
     SiteUpdatesSkill |-> <<>>]

\* get_required_tool_names(): SiteProgressAssistant does not override it
RequiredToolNames ==
    [GreeterAssistant |-> <<"authenticate_caller">>,
     JillVoiceNotesAssistant |-> <<"authenticate_caller", "identify_context", "save_note">>,
     SiteProgressAssistant |-> <<>>]

\* the tools an assistant declares: get_required_tool_names, and
\* SiteProgressAssistant.get_required_tools
DeclaredTools ==
    [GreeterAssistant |-> <<"authenticate_caller">>,
     JillVoiceNotesAssistant |-> <<"authenticate_caller", "identify_context", "save_note">>,
     SiteProgressAssistant |-> <<"identify_site_for_update", "save_site_progress_update">>]

\* a skill as BaseSkill.__init__ leaves it; serial tells instances apart
NewSkill(cls, serial) ==
    [cls |-> cls, skill_key |-> SkillKeyOf[cls], serial |-> serial,
     tool_ids |-> <<>>, assistant_id |-> None]

\* an assistant as BaseAssistant.__init__ leaves it
NewAssistant(cls, serial) ==
    [cls |-> cls, assistant_key |-> AssistantKeyOf[cls], serial |-> serial,
     assistant_id |-> None]

(***************************************************************************)
(* SkillRegistry                                                           *)
(***************************************************************************)
\* SkillRegistry.__init__; calls: the register calls made so far, in order
EmptyRegistry == [skills |-> <<>>, assistants |-> <<>>, calls |-> <<>>]

RegisterSkill(reg, cls) ==
    LET skill == NewSkill(cls, Len(reg.calls) + 1)
    IN  [reg EXCEPT !.skills = SetItem(@, skill.skill_key, skill),
                    !.calls = Append(@, [kind |-> "skill", key |-> skill.skill_key,
                                         serial |-> skill.serial])]

RegisterAssistant(reg, cls) ==
    LET assistant == NewAssistant(cls, Len(reg.calls) + 1)
    IN  [reg EXCEPT !.assistants = SetItem(@, assistant.assistant_key, assistant),
                    !.calls = Append(@, [kind |-> "assistant", key |-> assistant.assistant_key,
                                         serial |-> assistant.serial])]

\* the registry as the service's startup builds it
StartupRegistry ==
    RegisterAssistant(RegisterAssistant(RegisterAssistant(
        RegisterSkill(RegisterSkill(RegisterSkill(EmptyRegistry,
            "AuthenticationSkill"), "VoiceNotesSkill"), "SiteUpdatesSkill"),
        "GreeterAssistant"), "JillVoiceNotesAssistant"), "SiteProgressAssistant")

\* the parts of the provisioning state an operation may leave alone
sessionVars == <<vapi_logs, inflight, recorded, active, tableVars, extractVars>>

register_skill(cls) ==
    /\ Len(registry.calls) < MaxRegistrations
    /\ registry' = RegisterSkill(registry, cls)
    /\ UNCHANGED <<sessionVars, last, vapi, setup_run, reports>>

\* the legacy name
register(cls) == register_skill(cls)

register_assistant(cls) ==
    /\ Len(registry.calls) < MaxRegistrations
    /\ registry' = RegisterAssistant(registry, cls)
    /\ UNCHANGED <<sessionVars, last, vapi, setup_run, reports>>

get_skill(skill_key) ==
    /\ last' = [handler |-> "get_skill", toolCallId |-> None, vapi_call_id |-> None,
                skill_key |-> skill_key,
                result |-> IF HasKey(registry.skills, skill_key)
                           THEN Lookup(registry.skills, skill_key) ELSE PyNone]
    /\ UNCHANGED <<sessionVars, setupVars>>

\* BaseSkill.get_info
get_info(skill) ==
    [skill_key |-> skill.skill_key, tool_count |-> Len(skill.tool_ids),
     tools |-> [i \in DOMAIN skill.tool_ids |-> skill.tool_ids[i].key],
     assistant_id |-> skill.assistant_id, is_ready |-> ~IsNone(skill.assistant_id)]

\* {skill_key: skill.assistant_id for skill_key, skill in self.skills.items()}
get_assistant_ids(reg) ==
    [i \in DOMAIN reg.skills |->
        [key |-> reg.skills[i].key, value |-> reg.skills[i].value.assistant_id]]

\* A squad listing that takes every registered skill.
get_skills_for_squad_unfiltered(reg) ==
    [i \in DOMAIN reg.skills |->
        [skill_key |-> reg.skills[i].value.skill_key,
         assistant_id |-> reg.skills[i].value.assistant_id]]

\* the skills whose assistant_id is not None, as squad members
get_skills_for_squad(reg) ==
    LET ready == SelectSeq(reg.skills, LAMBDA item : ~IsNone(item.value.assistant_id))
    IN  [i \in DOMAIN ready |->
            [skill_key |-> ready[i].value.skill_key,
             assistant_id |-> ready[i].value.assistant_id]]

\* What a read of the registry returned, and the registry it was read from.
RegistryRead(name, result) ==
    /\ last' = [handler |-> name, toolCallId |-> None, vapi_call_id |-> None,
                registry |-> registry, result |-> result]
    /\ UNCHANGED <<sessionVars, setupVars>>

(***************************************************************************)
(* The voice platform and the provisioning calls                           *)
(***************************************************************************)
\* how GET /tool may answer: 200, another status, no answer
Listings == {"ok", "status", "exception"}

\* tool_map of _get_existing_tools: function name to id, a later tool replacing an earlier
RECURSIVE ToolMap(_)
ToolMap(tools) ==
    IF tools = <<>> THEN <<>>
    ELSE SetItem(ToolMap(SubSeq(tools, 1, Len(tools) - 1)),
                 tools[Len(tools)].name, tools[Len(tools)].id)

_get_existing_tools(tools, listing) == IF listing = "ok" THEN ToolMap(tools) ELSE <<>>

\* the loop of create_tools over tools_config; failing: the name whose POST /tool is
\* refused, None when none is
RECURSIVE CreateLoop(_, _, _, _, _)
CreateLoop(names, existing_tools, tools, tool_ids, failing) ==
    IF names = <<>>
    THEN [raised |-> FALSE, error |-> None, tools |-> tools, tool_ids |-> tool_ids]
    ELSE LET tool_name == Head(names)
         IN  IF HasKey(existing_tools, tool_name)
             THEN CreateLoop(Tail(names), existing_tools, tools,
                             SetItem(tool_ids, tool_name, Lookup(existing_tools, tool_name)),
                             failing)
             ELSE IF tool_name = failing
             THEN [raised |-> TRUE, error |-> <<"Tool creation failed for", tool_name>>,
                   tools |-> tools, tool_ids |-> <<>>]
             ELSE CreateLoop(Tail(names), existing_tools,
                             Append(tools, [id |-> Len(tools) + 1, name |-> tool_name]),
                             SetItem(tool_ids, tool_name, Len(tools) + 1), failing)

\* create_tools that never looks at the existing tools
create_tools_unlisted(cls, tools, listing, failing) ==
    CreateLoop(ToolsConfig[cls], <<>>, tools, <<>>, failing)

\* create_tools of the three skills: what it returns or raises, and the platform's tools
create_tools(cls, tools, listing, failing) ==
    IF cls = "SiteUpdatesSkill"
    THEN [raised |-> FALSE, error |-> None, tools |-> tools, tool_ids |-> <<>>]
    ELSE IF listing = "exception"
    THEN [raised |-> TRUE, error |-> <<"ConnectError">>, tools |-> tools, tool_ids |-> <<>>]
    ELSE CreateLoop(ToolsConfig[cls], _get_existing_tools(tools, listing), tools, <<>>,
                    failing)

\* the instances of the service that provision the same voice platform
Instances == {"a", "b"}

\* create_tools of an instance up to the answer of its GET /tool: the run keeps
\* existing_tools as the platform listed them at that moment
create_tools_list(inst, cls, listing) ==
    /\ creating[inst].phase = "idle"
    /\ creating' = [creating EXCEPT ![inst] =
          IF listing = "exception"
          THEN [phase |-> "done", cls |-> cls, raised |-> TRUE, listed |-> FALSE,
                names |-> <<>>, existing_tools |-> <<>>, tool_ids |-> <<>>]
          ELSE [phase |-> "posting", cls |-> cls, raised |-> FALSE,
                listed |-> listing = "ok", names |-> ToolsConfig[cls],
                existing_tools |-> _get_existing_tools(vapi.tools, listing),
                tool_ids |-> <<>>]]
    /\ UNCHANGED <<vapi_logs, inflight, recorded, active, tableVars, update_data,
                   processed, last, registry, vapi, setup_run, reports>>

\* The next iteration of the loop over tools_config in the run of an instance, or its
\* return: a name found in existing_tools is taken from there, any other is created
\* with POST /tool (postOk: answered 201).
create_tools_next(inst, postOk) ==
    LET run == creating[inst]
        tool_name == Head(run.names)
    IN  /\ run.phase = "posting"
        /\ UNCHANGED <<vapi_logs, inflight, recorded, active, tableVars, update_data,
                       processed, last, registry, setup_run, reports>>
        /\ IF run.names = <<>>
           THEN /\ creating' = [creating EXCEPT ![inst].phase = "done"]
                /\ UNCHANGED vapi
           ELSE IF HasKey(run.existing_tools, tool_name)
           THEN /\ creating' = [creating EXCEPT
                      ![inst].names = Tail(@),
                      ![inst].tool_ids =
                          SetItem(@, tool_name, Lookup(run.existing_tools, tool_name))]
                /\ UNCHANGED vapi
           ELSE IF ~postOk
           THEN /\ creating' = [creating EXCEPT ![inst].phase = "done",
                                                ![inst].raised = TRUE,
                                                ![inst].tool_ids = <<>>]
                /\ UNCHANGED vapi
           ELSE /\ Len(vapi.tools) < MaxTools
                /\ vapi' = [vapi EXCEPT !.tools =
                               Append(@, [id |-> Len(@) + 1, name |-> tool_name])]
                /\ creating' = [creating EXCEPT
                      ![inst].names = Tail(@),
                      ![inst].tool_ids = SetItem(@, tool_name, Len(vapi.tools) + 1)]

\* whether create_tools of the class asks the platform at all
Lists(cls) == cls # "SiteUpdatesSkill"

\* the first required tool that tool_ids lacks, None when it has them all
RECURSIVE FirstMissing(_, _)
FirstMissing(names, tool_ids) ==
    IF names = <<>> THEN None
    ELSE IF HasKey(tool_ids, Head(names)) THEN FirstMissing(Tail(names), tool_ids)
    ELSE Head(names)

\* POST /assistant answered 201
CreatedAssistant(assistants, name, toolIds) ==
    Append(assistants, [id |-> Len(assistants) + 1, name |-> name, toolIds |-> toolIds])

\* BaseAssistant.create (and setup, which re-raises)
create(cls, tool_ids, assistants, postOk) ==
    LET names == RequiredToolNames[cls]
        missing == FirstMissing(names, tool_ids)
    IN  IF missing # None
        THEN [raised |-> TRUE, error |-> <<"Required tool not found", missing>>,
              assistants |-> assistants, assistant_id |-> None]
        ELSE IF ~postOk
        THEN [raised |-> TRUE, error |-> <<"Assistant creation failed">>,
              assistants |-> assistants, assistant_id |-> None]
        ELSE [raised |-> FALSE, error |-> None,
              assistants |-> CreatedAssistant(assistants, AssistantKeyOf[cls],
                                [i \in DOMAIN names |-> Lookup(tool_ids, names[i])]),
              assistant_id |-> Len(assistants) + 1]

NotSupported == <<"NotImplementedError">>

\* create_assistant of a skill that stands alone as a persona or not
create_assistant_any(cls, tool_ids, assistants, postOk) ==
    IF ~postOk
    THEN [raised |-> TRUE, error |-> <<"Assistant creation failed">>,
          assistants |-> assistants, assistant_id |-> None]
    ELSE [raised |-> FALSE, error |-> None,
          assistants |-> CreatedAssistant(assistants, SkillKeyOf[cls], <<>>),
          assistant_id |-> Len(assistants) + 1]

\* create_assistant of the three skills
create_assistant(cls, tool_ids, assistants, postOk) ==
    IF cls # "VoiceNotesSkill"
    THEN [raised |-> TRUE, error |-> NotSupported,
          assistants |-> assistants, assistant_id |-> None]
    ELSE IF ~HasKey(tool_ids, "identify_context") \/ ~HasKey(tool_ids, "save_note")
    THEN [raised |-> TRUE, error |-> <<"KeyError">>,
          assistants |-> assistants, assistant_id |-> None]
    ELSE IF ~postOk
    THEN [raised |-> TRUE, error |-> <<"Assistant creation failed">>,
          assistants |-> assistants, assistant_id |-> None]
    ELSE [raised |-> FALSE, error |-> None,
          assistants |-> CreatedAssistant(assistants, "JSMB-Jill-voice-notes",
                            <<Lookup(tool_ids, "identify_context"),
                              Lookup(tool_ids, "save_note")>>),
          assistant_id |-> Len(assistants) + 1]

(***************************************************************************)
(* SkillRegistry.setup_all, one step per awaited call, and setup_skill     *)
(***************************************************************************)
\* trace: the calls the run has made so far, in order
NoRun ==
    [phase |-> "idle", pos |-> 1, skill_results |-> <<>>, assistant_results |-> <<>>,
     all_tool_ids |-> <<>>, trace |-> <<>>]

\* the POSTs /tool a step may see refused
Refusals == {None, "authenticate_caller", "save_note"}

\* entry into setup_all
setup_all_begin ==
    /\ setup_run.phase = "idle"
    /\ Len(reports) < MaxRuns
    /\ setup_run' = [NoRun EXCEPT !.phase = IF registry.skills = <<>> THEN "assistants"
                                            ELSE "skills"]
    /\ UNCHANGED <<sessionVars, last, registry, vapi, reports>>

\* Step 1 of setup_all for the next skill
setup_all_skill(listing, failing) ==
    /\ setup_run.phase = "skills"
    /\ LET skill_key == registry.skills[setup_run.pos].key
           skill == registry.skills[setup_run.pos].value
           made == create_tools(skill.cls, vapi.tools, listing, failing)
       IN  /\ Len(made.tools) <= MaxTools
           /\ vapi' = [vapi EXCEPT !.tools = made.tools,
                                   !.listed_all = @ /\ (Lists(skill.cls) => listing = "ok")]
           /\ registry' = IF made.raised THEN registry
                          ELSE [registry EXCEPT !.skills[setup_run.pos].value.tool_ids =
                                                    made.tool_ids]
           /\ setup_run' =
                 [setup_run EXCEPT
                    !.phase = IF setup_run.pos = Len(registry.skills) THEN "assistants"
                              ELSE "skills",
                    !.pos = IF setup_run.pos = Len(registry.skills) THEN 1 ELSE @ + 1,
                    !.all_tool_ids = IF made.raised THEN @ ELSE Update(@, made.tool_ids),
                    !.skill_results =
                        SetItem(@, skill_key,
                                IF made.raised
                                THEN [success |-> FALSE, error |-> made.error]
                                ELSE [success |-> TRUE, tool_ids |-> made.tool_ids]),
                    !.trace = Append(@, [op |-> "create_tools", key |-> skill_key,
                                         raised |-> made.raised,
                                         tool_ids |-> made.tool_ids])]
    /\ UNCHANGED <<sessionVars, last, reports>>

\* Step 2 of setup_all for the next assistant
setup_all_assistant(postOk) ==
    /\ setup_run.phase = "assistants"
    /\ setup_run.pos <= Len(registry.assistants)
    /\ LET assistant_key == registry.assistants[setup_run.pos].key
           assistant == registry.assistants[setup_run.pos].value
           made == create(assistant.cls, setup_run.all_tool_ids, vapi.assistants, postOk)
       IN  /\ Len(made.assistants) <= MaxAssistants
           /\ vapi' = [vapi EXCEPT !.assistants = made.assistants]
           /\ registry' = IF made.raised THEN registry
                          ELSE [registry EXCEPT
                                   !.assistants[setup_run.pos].value.assistant_id =
                                       made.assistant_id]
           /\ setup_run' =
                 [setup_run EXCEPT
                    !.pos = @ + 1,
                    !.assistant_results =
                        SetItem(@, assistant_key,
                                IF made.raised
                                THEN [success |-> FALSE, error |-> made.error]
                                ELSE [success |-> TRUE,
                                      info |-> [assistant_key |-> assistant.assistant_key,
                                                assistant_id |-> made.assistant_id]]),
                    !.trace = Append(@, [op |-> "setup", key |-> assistant_key,
                                         raised |-> made.raised,
                                         tool_ids |-> setup_run.all_tool_ids])]
    /\ UNCHANGED <<sessionVars, last, reports>>

\* a run that gives up on the assistants
setup_all_return_early ==
    /\ setup_run.phase = "assistants"
    /\ reports' = Append(reports, [skills |-> setup_run.skill_results,
                                   assistants |-> setup_run.assistant_results,
                                   all_tool_ids |-> setup_run.all_tool_ids])
    /\ setup_run' = [setup_run EXCEPT !.phase = "idle"]
    /\ UNCHANGED <<sessionVars, last, registry, vapi>>

\* the return of setup_all
setup_all_return ==
    /\ setup_run.phase = "assistants"
    /\ setup_run.pos > Len(registry.assistants)
    /\ reports' = Append(reports, [skills |-> setup_run.skill_results,
                                   assistants |-> setup_run.assistant_results,
                                   all_tool_ids |-> setup_run.all_tool_ids])
    /\ setup_run' = [setup_run EXCEPT !.phase = "idle"]
    /\ UNCHANGED <<sessionVars, last, registry, vapi>>

SetupSkillReply(skill_key, result) ==
    [handler |-> "setup_skill", toolCallId |-> None, vapi_call_id |-> None,
     skill_key |-> skill_key, result |-> result]

\* SkillRegistry.setup_skill with BaseSkill.setup
setup_skill(skill_key, listing, failing, postOk) ==
    LET skill == Lookup(registry.skills, skill_key)
    IN  /\ UNCHANGED <<sessionVars, setup_run, reports>>
        /\ IF ~HasKey(registry.skills, skill_key)
           THEN /\ last' = SetupSkillReply(skill_key,
                              [success |-> FALSE, error |-> <<"Skill not found", skill_key>>])
                /\ UNCHANGED <<registry, vapi>>
           ELSE LET tools == create_tools(skill.cls, vapi.tools, listing, failing)
                    made == create_assistant(skill.cls, tools.tool_ids, vapi.assistants,
                                             postOk)
                    at == CHOOSE i \in DOMAIN registry.skills :
                              registry.skills[i].key = skill_key
                IN  /\ Len(tools.tools) <= MaxTools
                    /\ IF tools.raised
                       THEN /\ last' = SetupSkillReply(skill_key,
                                          [success |-> FALSE, error |-> tools.error])
                            /\ vapi' = [vapi EXCEPT
                                  !.tools = tools.tools,
                                  !.listed_all = @ /\ (Lists(skill.cls) => listing = "ok")]
                            /\ UNCHANGED registry
                       ELSE /\ Len(made.assistants) <= MaxAssistants
                            /\ vapi' = [vapi EXCEPT
                                  !.tools = tools.tools,
                                  !.assistants = made.assistants,
                                  !.listed_all = @ /\ (Lists(skill.cls) => listing = "ok")]
                            /\ registry' =
                                  [registry EXCEPT
                                     !.skills[at].value.tool_ids = tools.tool_ids,
                                     !.skills[at].value.assistant_id =
                                         IF made.raised THEN @ ELSE made.assistant_id]
                            /\ last' = SetupSkillReply(skill_key,
                                  IF made.raised
                                  THEN [success |-> FALSE, error |-> made.error]
                                  ELSE [success |-> TRUE,
                                        info |-> [skill_key |-> skill.skill_key,
                                                  tool_ids |-> tools.tool_ids,
                                                  assistant_id |-> made.assistant_id]])

(***************************************************************************)
(* Initial states                                                          *)
(***************************************************************************)
Idle == [handler |-> "none", toolCallId |-> None, vapi_call_id |-> None,
         result |-> [success |-> TRUE]]

StoreInit ==
    /\ vapi_logs = <<>>
    /\ inflight = {}
    /\ recorded = <<>>
    /\ site_progress_updates = <<>>
    /\ voice_notes = <<>>
    /\ last = Idle

ExtractIdle ==
    /\ update_data = UpdateData(PyNone, PyNone, PyNone)
    /\ processed = <<>>

\* nothing provisioned yet
ProvisionIdle ==
    /\ vapi = [tools |-> <<>>, assistants |-> <<>>, listed_all |-> TRUE]
    /\ setup_run = NoRun
    /\ reports = <<>>
    /\ creating = [inst \in Instances |-> [phase |-> "idle"]]

\* the service after its startup
Started ==
    /\ registry = StartupRegistry
    /\ ProvisionIdle

(***************************************************************************)
(* Spec: the session log and the turns that write it                       *)
(***************************************************************************)
Init ==
    /\ StoreInit
    /\ ExtractIdle
    /\ Started
    /\ active = SiteIds

LogWrite ==
    \E turn \in inflight, ok \in BOOLEAN : log_vapi_interaction(turn, ok)

Next ==
    \/ \E impl \in AuthImpls, callId \in CallIds, phone \in {"p1", "p2", "p3", Absent} :
           \E usersOk \in Among(phone = "p1", BOOLEAN, TRUE) :
               authenticate_by_phone(impl, Request(callId, "tc1", Absent), phone, Absent,
                                     usersOk, <<"Voice Notes">>)
    \/ LogWrite
    \/ start_skill_session("t2", "c1")
    \/ \E callId \in {"c1", None}, ok \in BOOLEAN : handle_end_of_call_report(callId, ok)

Spec == Init /\ [][Next]_vars

(***************************************************************************)
(* SpecTurns: an authenticating call and the turns that resolve a site     *)
(***************************************************************************)
\* the sets of active sites the store may hold
ActiveSets == {SiteIds, {"s1", "s3"}, {}}

\* whether the completion service is reachable, for a turn that may not ask it
Availability ==
    {[kind |-> "http_error"],
     [kind |-> "json_object", site_found |-> "true", site_id |-> "s1"]}

\* The turn for call id c gets a session: what it does next depends on further inputs.
HasSession(req, c, storeOk) ==
    req.call # NoId /\ storeOk /\ AuthRows(vapi_logs, c) # {}

InitTurns ==
    /\ StoreInit
    /\ ExtractIdle
    /\ Started
    /\ active \in ActiveSets

NextTurns ==
    \/ \E phone \in {"p1", "p2"}, usersOk \in BOOLEAN :
           authenticate_by_phone("authentication", Request("c1", "tc1", Absent), phone,
                                 Absent, usersOk, <<"Voice Notes">>)
    \/ LogWrite
    \/ \E req \in TurnRequests, description \in SiteDescriptions, storeOk \in BOOLEAN :
           LET reached == HasSession(req, TurnCallId(req), storeOk)
           IN  \E sitesOk \in Among(reached, BOOLEAN, TRUE) :
                   \E answer \in IF reached /\ sitesOk THEN SiteMatchAnswers ELSE Availability :
                       identify_site_for_update(req, description, storeOk, sitesOk, answer)
    \/ \E req \in TurnRequests, input \in UserInputs, storeOk \in BOOLEAN :
           LET reached == HasSession(req, TurnCallId(req), storeOk)
           IN  \E tenantsOk \in Among(reached, BOOLEAN, TRUE),
                  sitesOk \in Among(reached, BOOLEAN, TRUE) :
                   \E answer \in IF reached /\ sitesOk THEN SiteMatchAnswers ELSE Availability :
                       identify_voice_note_context(req, input, storeOk, tenantsOk, sitesOk,
                                                   answer)

SpecTurns == InitTurns /\ [][NextTurns]_vars

(***************************************************************************)
(* SpecCall: one caller's call and the four turns that depend on a session *)
(***************************************************************************)
NextCall ==
    \/ authenticate_by_phone("authentication", Request("c1", "tc1", Absent), "p1", Absent,
                             TRUE, <<"Voice Notes">>)
    \/ LogWrite
    \/ \E req \in TurnRequests, description \in {PyAbsent, PyStr(<<"o", "c", "e", "a", "n">>)},
          storeOk \in BOOLEAN :
           \E answer \in Among(HasSession(req, TurnCallId(req), storeOk), Availability,
                               [kind |-> "http_error"]) :
               identify_site_for_update(req, description, storeOk, TRUE, answer)
    \/ \E req \in TurnRequests,
          input \in {PyStr(<<"m", "e", "m", "o">>), PyStr(<<"O", "c", "e", "a", "n", " ", "S", "i", "t", "e">>)},
          storeOk \in BOOLEAN :
           \E answer \in Among(HasSession(req, TurnCallId(req), storeOk), Availability,
                               [kind |-> "http_error"]) :
               identify_voice_note_context(req, input, storeOk, TRUE, TRUE, answer)
    \/ \E req \in TurnRequests, site_id \in {Absent, "s1", "s3"}, storeOk \in BOOLEAN :
           LET reached == HasSession(req, SaveUpdateCallId(req), storeOk) /\ site_id # Absent
           IN  \E answer \in Among(reached, {[kind |-> "http_error"],
                                             [kind |-> "json", value |-> PyNone]},
                                   [kind |-> "http_error"]),
                  checkOk \in Among(reached, BOOLEAN, TRUE),
                  insertOk \in Among(reached, BOOLEAN, TRUE) :
                   save_site_progress_update(req, site_id, <<>>, <<"l", "a", "t", "e">>,
                                             storeOk, answer, checkOk, insertOk)
    \/ \E req \in TurnRequests, note_text \in {PyAbsent, PyStr(<<"m", "e", "m", "o">>)},
          site_id \in {Absent, "s3"}, storeOk \in BOOLEAN :
           LET reached == HasSession(req, SaveNoteCallId(req), storeOk)
           IN  \E insertOk \in Among(reached, BOOLEAN, TRUE) :
                   save_voice_note(req, note_text, "general", site_id, storeOk, TRUE, TRUE,
                                   insertOk)

SpecCall == Init /\ [][NextCall]_vars

(***************************************************************************)
(* SpecSave: one caller's call and the two turns that store a record       *)
(***************************************************************************)
\* The conversations a save-update webhook carries in message.messages: none; lines
\* of the assistant and of the user with a line of another role, a line without text
\* and a line whose text is under the key message; no line of the user or the assistant.
TranscriptMessages ==
    LET Msg(role, content, message) ==
            [role |-> role, content |-> content, message |-> message]
    IN  {<<>>,
         <<Msg("assistant", <<"o", "k">>, <<>>), Msg("system", <<"s">>, <<>>),
           Msg("user", <<>>, <<>>), Msg("user", <<>>, <<"h", "m">>)>>,
         <<Msg("system", <<"s">>, <<>>), Msg("tool", <<"t">>, <<>>)>>}

\* An extraction whose JSON object carries, next to a declared key, keys of the record
\* the handler builds.
OverridingExtraction ==
    [summary_brief |-> PyStr(<<"b">>), id |-> 0, site_id |-> "s3", user_id |-> "u2",
     tenant_id |-> "t2", vapi_call_id |-> "c2", raw_transcript |-> <<"x">>]

\* Caller p1 authenticates in call c1 and saves site updates and voice notes, naming a
\* site of the own tenant (s1), of another tenant (s3) or no site of the store (s9).
NextSave ==
    \/ authenticate_by_phone("authentication", Request("c1", "tc1", Absent), "p1", Absent,
                             TRUE, <<"Voice Notes">>)
    \/ LogWrite
    \/ \E site_id \in {"s1", "s3"}, messages \in TranscriptMessages :
           LET req == Request("c1", "tc1", Absent)
               reached == HasSession(req, SaveUpdateCallId(req), TRUE)
           IN  \E answer \in Among(reached,
                                   {[kind |-> "http_error"],
                                    [kind |-> "json", value |-> PyNone],
                                    [kind |-> "json", value |-> PyDict(FullExtraction)],
                                    [kind |-> "json", value |-> PyDict(OverridingExtraction)]},
                                   [kind |-> "http_error"]),
                  insertOk \in Among(reached, BOOLEAN, TRUE) :
                   save_site_progress_update(req, site_id, messages, <<"l", "a", "t", "e">>,
                                             TRUE, answer, TRUE, insertOk)
    \/ \E site_id \in {Absent, "s1", "s3", "s9"} :
           LET req == Request("c1", "tc1", Absent)
               reached == HasSession(req, SaveNoteCallId(req), TRUE)
           IN  \E insertOk \in Among(reached, BOOLEAN, TRUE) :
                   save_voice_note(req, PyStr(<<"m", "e", "m", "o">>), "general", site_id,
                                   TRUE, TRUE, TRUE, insertOk)

SpecSave == Init /\ [][NextSave]_vars

(***************************************************************************)
(* SpecShapes: call c1 authenticates, call c2 takes turns, in every shape  *)
(***************************************************************************)
\* The shapes an authentication webhook of call c1 arrives in: with the call object,
\* without it and with the vapi_call_id argument, with neither.
AuthShapes ==
    {Request("c1", "tc1", Absent), Request(Absent, "tc1", "c1"),
     Request(Absent, "tc1", Absent)}

\* The shapes a later webhook of call c2 arrives in: the same three, and one without
\* tool call.
CallShapes ==
    {Request("c2", "tc2", Absent), Request(Absent, "tc2", "c2"),
     Request(Absent, "tc2", Absent), Request(Absent, Absent, Absent)}

NextShapes ==
    \/ \E req \in AuthShapes :
           authenticate_by_phone("authentication", req, "p1", Absent, TRUE,
                                 <<"Voice Notes">>)
    \/ LogWrite
    \/ \E req \in CallShapes, storeOk \in BOOLEAN :
           identify_site_for_update(req, PyAbsent, storeOk, TRUE, [kind |-> "http_error"])
    \/ \E req \in CallShapes, storeOk \in BOOLEAN :
           LET reached == HasSession(req, SaveNoteCallId(req), storeOk)
           IN  \E insertOk \in Among(reached, BOOLEAN, TRUE) :
                   save_voice_note(req, PyStr(<<"m", "e", "m", "o">>), "general", Absent,
                                   storeOk, TRUE, TRUE, insertOk)

SpecShapes == Init /\ [][NextShapes]_vars

(***************************************************************************)
(* SpecGreeting: callers with any number of enabled skills authenticate    *)
(***************************************************************************)
\* the rows user_skills may hold for a user, by skill name
SkillLists == UNION {[1..n -> {"Voice Notes", "Site Updates"}] : n \in 0..MaxSkills}

\* one authentication turn at a time, in each of the three implementations
NextGreeting ==
    \/ /\ inflight = {}
       /\ \E impl \in AuthImpls, phone \in {"p1", "p2"}, skills \in SkillLists :
              authenticate_by_phone(impl, Request("c1", "tc1", Absent), phone, Absent,
                                    TRUE, skills)
    \/ LogWrite

SpecGreeting == Init /\ [][NextGreeting]_vars

(***************************************************************************)
(* SpecArgs: extract_vapi_args applied to bounded request bodies           *)
(***************************************************************************)
\* one application to each body: the function keeps no state between calls
ExtractArgs ==
    /\ last = Idle
    /\ \E request \in RawRequests :
          last' = [handler |-> "extract_vapi_args", toolCallId |-> None,
                   vapi_call_id |-> None, request |-> request,
                   result |-> extract_vapi_args(request)]
    /\ UNCHANGED <<vapi_logs, inflight, recorded, active, tableVars, extractVars, setupVars>>

SpecArgs == Init /\ [][ExtractArgs]_vars

(***************************************************************************)
(* SpecExtract: process_update applied to bounded inputs                   *)
(***************************************************************************)
\* The dictionaries of optional string fields process_update is applied to.
UpdateInputs ==
    {UpdateData(m, i, r) :
        m \in {PyNone, PyAbsent, PyStr(<<"u", "r">>), PyStr(<<"U", "R", "G", "E", "N", "T", " ", "f", "i", "x">>)},
        i \in {PyNone, PyStr(<<"g", "e", "n", "t">>), PyStr(<<"U", "n", "s", "a", "f", "e", " ", "d", "e", "l", "a", "y">>),
               PyStr(<<"a", "l", "l", " ", "o", "k">>)},
        r \in {PyNone, PyStr(<<>>), PyStr(<<"l", "a", "t", "e", " ", "D", "e", "l", "i", "v", "e", "r", "y">>),
               PyStr(<<"a", "l", "l", " ", "o", "k">>)}}

InitExtract ==
    /\ StoreInit
    /\ Started
    /\ active = SiteIds
    /\ update_data \in UpdateInputs
    /\ processed = <<>>

ProcessUpdate ==
    /\ Len(processed) < MaxCalls
    /\ \E answer \in ExtractionAnswers :
          processed' = Append(processed,
              [answer |-> answer, outcome |-> process_update(update_data, answer)])
    /\ UNCHANGED <<vapi_logs, inflight, recorded, active, tableVars, last,
                   update_data, creating, setupVars>>

SpecExtract == InitExtract /\ [][ProcessUpdate]_vars

(***************************************************************************)
(* SpecRegistry: registering skills and assistants                         *)
(***************************************************************************)
\* a key no skill has
UnknownSkillKey == "project_summary"

InitRegistry ==
    /\ StoreInit
    /\ ExtractIdle
    /\ ProvisionIdle
    /\ active = SiteIds
    /\ registry = EmptyRegistry

NextRegistry ==
    \/ \E cls \in SkillClasses : register(cls)
    \/ \E cls \in SkillClasses : register_skill(cls)
    \/ \E cls \in AssistantClasses : register_assistant(cls)
    \/ \E skill_key \in {SkillKeyOf[cls] : cls \in SkillClasses} \cup {UnknownSkillKey} :
           get_skill(skill_key)

SpecRegistry == InitRegistry /\ [][NextRegistry]_vars

(***************************************************************************)
(* SpecSetup: provisioning the voice platform                              *)
(***************************************************************************)
\* the registries setup_all is run on: the startup one; one with voice_notes registered
\* before authentication and site_progress before the other assistants; one without the
\* voice_notes skill, where jill-voice-notes lacks two of its tools
SetupRegistries ==
    {StartupRegistry,
     RegisterAssistant(RegisterAssistant(RegisterAssistant(
         RegisterSkill(RegisterSkill(RegisterSkill(EmptyRegistry,
             "VoiceNotesSkill"), "SiteUpdatesSkill"), "AuthenticationSkill"),
         "SiteProgressAssistant"), "JillVoiceNotesAssistant"), "GreeterAssistant"),
     RegisterAssistant(RegisterAssistant(
         RegisterSkill(RegisterSkill(EmptyRegistry, "SiteUpdatesSkill"), "AuthenticationSkill"),
         "JillVoiceNotesAssistant"), "GreeterAssistant")}

InitSetup ==
    /\ StoreInit
    /\ ExtractIdle
    /\ ProvisionIdle
    /\ active = SiteIds
    /\ registry \in SetupRegistries

SetupSkill ==
    \E skill_key \in {SkillKeyOf[cls] : cls \in SkillClasses} \cup {UnknownSkillKey},
       listing \in Listings, failing \in Refusals, postOk \in BOOLEAN :
        setup_skill(skill_key, listing, failing, postOk)

NextSetup ==
    \/ setup_all_begin
    \/ \E listing \in Listings, failing \in Refusals : setup_all_skill(listing, failing)
    \/ \E postOk \in BOOLEAN : setup_all_assistant(postOk)
    \/ setup_all_return

SpecSetup == InitSetup /\ [][NextSetup]_vars

(***************************************************************************)
(* SpecSkill: setting single skills up                                     *)
(***************************************************************************)
SpecSkill == InitSetup /\ [][SetupSkill]_vars

(***************************************************************************)
(* SpecRace: two instances provisioning the same voice platform            *)
(***************************************************************************)
\* Each instance runs create_tools of one skill once; the runs interleave at their
\* requests to the platform.
NextRace ==
    \/ \E inst \in Instances, cls \in {"AuthenticationSkill", "VoiceNotesSkill"},
          listing \in Listings :
           create_tools_list(inst, cls, listing)
    \/ \E inst \in Instances, postOk \in BOOLEAN : create_tools_next(inst, postOk)

SpecRace == InitSetup /\ [][NextRace]_vars

(***************************************************************************)
(* SpecSquad: registering, provisioning and reading the registry           *)
(***************************************************************************)
\* Skills are registered, single skills are set up and the registry is read before and
\* after one run of setup_all; the registry holds no assistants.
NextSquad ==
    \/ \E cls \in {"AuthenticationSkill", "VoiceNotesSkill"} :
           setup_run.phase = "idle" /\ register(cls)
    \/ \E skill_key \in {"authentication", "voice_notes"}, postOk \in BOOLEAN :
           setup_run.phase = "idle" /\ setup_skill(skill_key, "ok", None, postOk)
    \/ reports = <<>> /\ setup_all_begin
    \/ setup_all_skill("ok", None)
    \/ setup_all_return
    \/ setup_run.phase = "idle"
           /\ RegistryRead("get_skills_for_squad", get_skills_for_squad(registry))
    \/ setup_run.phase = "idle"
           /\ RegistryRead("get_assistant_ids", get_assistant_ids(registry))
    \/ setup_run.phase = "idle"
           /\ RegistryRead("list_skills",
                           [i \in DOMAIN registry.skills |->
                               get_info(registry.skills[i].value)])

SpecSquad == InitRegistry /\ [][NextSquad]_vars

(***************************************************************************)
(* Properties of the registry (SpecRegistry)                               *)
(***************************************************************************)
\* the register calls made for a kind and a key, by position
CallsFor(kind, key) ==
    {i \in DOMAIN registry.calls :
        registry.calls[i].kind = kind /\ registry.calls[i].key = key}

\* no key twice, the keys are those registered, each entry is the instance of the last call
LastWriteWins(items, kind) ==
    /\ \A i, j \in DOMAIN items : items[i].key = items[j].key => i = j
    /\ Keys(items) = {registry.calls[i].key :
                         i \in {c \in DOMAIN registry.calls : registry.calls[c].kind = kind}}
    /\ \A i \in DOMAIN items :
          /\ items[i].value.serial \in
                {registry.calls[c].serial : c \in CallsFor(kind, items[i].key)}
          /\ \A c \in CallsFor(kind, items[i].key) :
                registry.calls[c].serial <= items[i].value.serial

\* C14: after any sequence of register, register_skill and register_assistant calls the
\* registry holds exactly one entry per distinct key, the instance registered last for
\* it, and get_skill of a key never registered returns None.
C14_RegisterLastWins ==
    /\ LastWriteWins(registry.skills, "skill")
    /\ LastWriteWins(registry.assistants, "assistant")
    /\ last.handler = "get_skill" /\ CallsFor("skill", last.skill_key) = {}
          => last.result = PyNone

C14_Witness ==
    /\ \E i, j \in CallsFor("skill", "voice_notes") : i < j
    /\ \E i, j \in CallsFor("assistant", "greeter") : i < j
    /\ last.handler = "get_skill"
    /\ last.skill_key = UnknownSkillKey
    /\ last.result = PyNone

(***************************************************************************)
(* Properties of provisioning (SpecSetup)                                  *)
(***************************************************************************)
\* the events of the run's trace, by position
Events(op) == {i \in DOMAIN setup_run.trace : setup_run.trace[i].op = op}

\* the create_tools calls of the run that returned
Succeeded == {i \in Events("create_tools") : ~setup_run.trace[i].raised}

\* the map holds the tool ids of all the skills whose create_tools returned, and no other
CompleteMap(tool_ids) ==
    /\ Keys(tool_ids) = UNION {Keys(setup_run.trace[i].tool_ids) : i \in Succeeded}
    /\ \A i \in DOMAIN tool_ids :
          \E j \in Succeeded :
              /\ HasKey(setup_run.trace[j].tool_ids, tool_ids[i].key)
              /\ Lookup(setup_run.trace[j].tool_ids, tool_ids[i].key) = tool_ids[i].value

\* C11: in every run of setup_all, create_tools has been called on every registered
\* skill before setup is called on any assistant, and every assistant is handed the
\* same map, which holds the tool ids of all the skills whose create_tools succeeded.
C11_TwoPhase ==
    \A a \in Events("setup") :
        /\ \A s \in Events("create_tools") : s < a
        /\ {setup_run.trace[s].key : s \in Events("create_tools")} = Keys(registry.skills)
        /\ CompleteMap(setup_run.trace[a].tool_ids)
        /\ \A b \in Events("setup") :
              setup_run.trace[b].tool_ids = setup_run.trace[a].tool_ids

C11_Witness ==
    /\ setup_run.phase = "idle"
    /\ \E a \in Events("setup") :
          /\ setup_run.trace[a].key = "greeter"
          /\ HasKey(setup_run.trace[a].tool_ids, "save_note")
    /\ \E s \in Events("create_tools") : setup_run.trace[s].raised
    /\ Cardinality(Events("setup")) > 1

\* the report has one entry for each registered key and no other
OnePerKey(results, items) ==
    /\ Keys(results) = Keys(items)
    /\ Len(results) = Len(items)

\* the entry of a call that raised says success = false with the error, of one that
\* returned success = true
Reported(results, op) ==
    \A i \in Events(op) :
        LET entry == Lookup(results, setup_run.trace[i].key)
        IN  /\ entry.success = ~setup_run.trace[i].raised
            /\ setup_run.trace[i].raised => "error" \in DOMAIN entry

\* C12: setup_all never aborts on a failure: a skill whose create_tools raises and an
\* assistant whose setup raises are reported with success = false and an error, every
\* other skill and assistant is still attempted, and the report has exactly one entry
\* for each registered skill key and each registered assistant key.
C12_NeverAborts ==
    /\ \A r \in DOMAIN reports :
          /\ OnePerKey(reports[r].skills, registry.skills)
          /\ OnePerKey(reports[r].assistants, registry.assistants)
    /\ setup_run.phase = "idle" /\ reports # <<>> =>
          /\ Cardinality(Events("create_tools")) = Len(registry.skills)
          /\ Cardinality(Events("setup")) = Len(registry.assistants)
          /\ Reported(reports[Len(reports)].skills, "create_tools")
          /\ Reported(reports[Len(reports)].assistants, "setup")

C12_Witness ==
    /\ setup_run.phase = "idle"
    /\ reports # <<>>
    /\ setup_run.trace[1].op = "create_tools" /\ setup_run.trace[1].raised
    /\ \E s \in Succeeded : s > 1
    /\ \E a, b \in Events("setup") :
          a < b /\ setup_run.trace[a].raised /\ ~setup_run.trace[b].raised

\* the platform holds at most one tool of each function name
OneToolPerName ==
    \A i, j \in DOMAIN vapi.tools : vapi.tools[i].name = vapi.tools[j].name => i = j

\* two dictionaries with the same keys and values
SameMap(d, e) ==
    /\ Keys(d) = Keys(e)
    /\ \A k \in Keys(d) : Lookup(d, k) = Lookup(e, k)

\* every create_tools of the run returned
AllSucceeded(report) ==
    \A i \in DOMAIN report.skills : report.skills[i].value.success

ClassOfAssistant(name) == CHOOSE cls \in AssistantClasses : AssistantKeyOf[cls] = name

\* the platform assistant is bound to a tool of that function name
BoundTo(assistant, name) ==
    \E t \in DOMAIN vapi.tools :
        /\ vapi.tools[t].name = name
        /\ \E i \in DOMAIN assistant.toolIds : assistant.toolIds[i] = vapi.tools[t].id

\* C15 as stated: every assistant on the voice platform is bound to the tool ids of
\* all the tools it declares as required; with a declared tool missing from the map it
\* is handed, setup fails, no assistant is created and assistant_id stays unset.
C15_BoundToDeclaredTools ==
    /\ \A i \in DOMAIN vapi.assistants :
          LET cls == ClassOfAssistant(vapi.assistants[i].name)
          IN  \A n \in DOMAIN DeclaredTools[cls] :
                  BoundTo(vapi.assistants[i], DeclaredTools[cls][n])
    /\ \A a \in Events("setup") :
          LET cls == ClassOfAssistant(setup_run.trace[a].key)
          IN  (\E n \in DOMAIN DeclaredTools[cls] :
                  ~HasKey(setup_run.trace[a].tool_ids, DeclaredTools[cls][n]))
              => setup_run.trace[a].raised

(***************************************************************************)
(* Properties of setup_skill (SpecSkill)                                   *)
(***************************************************************************)
\* the skills that are no persona of their own
ToolOnlySkills == {"AuthenticationSkill", "SiteUpdatesSkill"}

\* the errors create_tools raises
ToolErrors == {"ConnectError", "Tool creation failed for"}

\* C16: setup_skill on AuthenticationSkill or SiteUpdatesSkill answers success = false
\* with the not-supported error of create_assistant (or, when create_tools already
\* failed, with that error); no such skill ever has an assistant id, and none is
\* created for it on the platform.
C16_ToolOnlySkillsFailLoudly ==
    /\ \A i \in DOMAIN registry.skills :
          registry.skills[i].value.cls \in ToolOnlySkills
              => registry.skills[i].value.assistant_id = None
    /\ \A i \in DOMAIN vapi.assistants :
          vapi.assistants[i].name \notin {SkillKeyOf[cls] : cls \in ToolOnlySkills}
    /\ last.handler = "setup_skill"
          /\ last.skill_key \in {SkillKeyOf[cls] : cls \in ToolOnlySkills} =>
              /\ ~last.result.success
              /\ "error" \in DOMAIN last.result
              /\ \/ last.result.error = NotSupported
                 \/ last.result.error[1] \in ToolErrors
              /\ last.skill_key = "site_updates" => last.result.error = NotSupported

C16_Witness ==
    /\ last.handler = "setup_skill"
    /\ last.skill_key = "authentication"
    /\ last.result.error = NotSupported
    /\ Lookup(registry.skills, "authentication").tool_ids # <<>>

(***************************************************************************)
(* Properties of the extraction pipeline (SpecExtract)                     *)
(***************************************************************************)
ListKeys == {"extracted_action_items", "identified_blockers", "flagged_concerns"}
FlagKeys == {"has_urgent_issues", "has_safety_concerns", "has_delays", "has_material_issues"}
SummaryKeys == {"summary_brief", "summary_detailed"}

FlagWords ==
    [has_urgent_issues |-> UrgentWords, has_safety_concerns |-> SafetyWords,
     has_delays |-> DelayWords, has_material_issues |-> MaterialWords]

\* the calls of process_update that took the fallback path
FallbackCalls == {i \in DOMAIN processed : processed[i].answer.kind # "json"}

\* a structurally valid ExtractedUpdate
WellFormedExtraction(v) ==
    /\ v.t = "dict"
    /\ DOMAIN v.v = SummaryKeys \cup FlagKeys \cup ListKeys
    /\ \A k \in SummaryKeys : v.v[k].t = "str"
    /\ \A k \in FlagKeys : v.v[k].t = "bool"
    /\ \A k \in ListKeys : v.v[k].t = "list"

\* the lower-cased, space-joined text of the non-empty string fields of update_data
JoinedLowerText == Lower(JoinSpace(StringValues(update_data, FieldOrder)))

\* C8: process_update never raises, and on every completion failure (transport error,
\* status other than 200, body of unexpected shape, null content) and on a JSON parse
\* failure it returns the fallback result, which has both summaries, the four boolean
\* flags and the three lists, for every input dictionary.
C8_NeverRaisesFallbackWellFormed ==
    \A i \in DOMAIN processed :
        /\ ~processed[i].outcome.raised
        /\ i \in FallbackCalls =>
              /\ WellFormedExtraction(processed[i].outcome.value)
              /\ processed[i].outcome.value = PyDict(_get_fallback_processing(update_data))

\* C8 witness: a body of unexpected shape and a JSON parse failure were both answered
\* with a result, for an input that lacks main_focus.
C8_Witness ==
    /\ update_data["main_focus"] = PyAbsent
    /\ Len(processed) = 2
    /\ processed[1].answer.kind = "bad_shape"
    /\ processed[2].answer.kind = "not_json"
    /\ \A i \in {1, 2} : processed[i].outcome.value.t = "dict"

C10_ListsAlwaysPresent ==
    \A i \in DOMAIN processed :
        LET value == processed[i].outcome.value
        IN  /\ value.t = "dict"
            /\ \A k \in ListKeys : k \in DOMAIN value.v /\ value.v[k].t = "list"

(***************************************************************************)
(* Properties of the session log (Spec)                                    *)
(***************************************************************************)
\* the values vapi_call_id takes
SessionKeys == CallIds \cup {"unknown"}

\* the authentication events recorded for call c, by position in the log
RecordedAuth(c) ==
    {i \in DOMAIN recorded :
        /\ recorded[i].vapi_call_id = c
        /\ recorded[i].interaction_type = "authentication"}

\* what a reading turn gets for call c from an available store
Resolve(c) == get_session_context_by_call_id(vapi_logs, c, TRUE)

\* the authentication event of call c that was recorded last
LastRecordedAuth(c) ==
    recorded[CHOOSE i \in RecordedAuth(c) : \A j \in RecordedAuth(c) : j <= i]

\* C2: for every call id c, once authentication events have been recorded for c,
\* get_session_context_by_call_id(c) returns a session whose tenant_id, user_id and
\* caller_phone are those of an authentication event recorded for c: of the only one
\* when there is one, and of the one appended last when the store set created_at of
\* each; for a call id without authentication event it returns None.
C2_SessionRoundTrip ==
    \A c \in SessionKeys :
        IF RecordedAuth(c) = {}
        THEN Resolve(c) = {NoSession}
        ELSE \A s \in Resolve(c) :
                /\ s.found
                /\ \E i \in RecordedAuth(c) : Identity(s) = Identity(recorded[i])
                /\ (\A i \in RecordedAuth(c) : ~recorded[i].client_stamped) =>
                      Identity(s) = Identity(LastRecordedAuth(c))

\* C2 witness: c1 has one authentication event (tenant t1, user u1, phone p1) next to a
\* start-session row of another tenant, c2 has no event; c1 resolves to t1/u1/p1.
C2_Witness ==
    /\ Cardinality(RecordedAuth("c1")) = 1
    /\ RecordedAuth("c2") = {}
    /\ \E i \in DOMAIN vapi_logs :
          vapi_logs[i].vapi_call_id = "c1" /\ vapi_logs[i].interaction_type = None
    /\ \A s \in Resolve("c1") :
          s.found /\ Identity(s) = [tenant_id |-> "t1", user_id |-> "u1", caller_phone |-> "p1"]

\* C3: with several authentication events for one call id, get_session_context_by_call_id
\* returns the identity of the one recorded last, under every interleaving of the turns.
C3_LatestRecordedWins ==
    \A c \in SessionKeys :
        RecordedAuth(c) # {} =>
            \A s \in Resolve(c) : s.found /\ Identity(s) = Identity(LastRecordedAuth(c))

\* C4: the tenant_id, user_id, caller_phone and raw_log_data of every authentication
\* event are, in every reachable state, what they were when the event was written.
C4_EventsNeverMutated ==
    \A i \in DOMAIN recorded :
        recorded[i].interaction_type = "authentication" =>
            /\ i \in DOMAIN vapi_logs
            /\ Identity(vapi_logs[i]) = Identity(recorded[i])
            /\ vapi_logs[i].raw_log_data = recorded[i].raw_log_data

\* a step in which a log write ends without a new row in vapi_logs
LogWriteFailed ==
    /\ Cardinality(inflight') < Cardinality(inflight)
    /\ Len(vapi_logs') = Len(vapi_logs)

\* C17: a log write that fails never aborts the turn it belongs to: the authentication
\* turn whose log write wrote no row returns the response it returns when the row is
\* written, with authorized = true.
C17_LogFailureKeepsReply ==
    [][LogWriteFailed =>
          /\ \E turn \in inflight : last' = turn.reply
          /\ last'.handler = "authenticate_by_phone"
          /\ last'.result.authorized]_vars

\* C17 witness: the caller was told authorized = true although no row was ever written.
C17_Witness ==
    /\ last.handler = "authenticate_by_phone"
    /\ last.result.authorized
    /\ inflight = {}
    /\ vapi_logs = <<>>

(***************************************************************************)
(* Properties of the resolving turns (SpecTurns)                           *)
(***************************************************************************)
IsSiteTurn == last.handler = "identify_site_for_update"
IsContextTurn == last.handler = "identify_voice_note_context"

\* the ids of a candidate list
CandidateIds(sites) == {sites[i].id : i \in DOMAIN sites}

\* the active sites of a tenant, as the store holds them
ActiveSitesOf(tenant) ==
    {EntitiesTable[i].id : i \in {j \in DOMAIN EntitiesTable :
        EntitiesTable[j].tenant_id = tenant /\ EntitiesTable[j].id \in active}}

\* the completion service said site_found = true and named a site
NamesSite(answer) ==
    answer.kind = "json_object" /\ answer.site_found = "true" /\ answer.site_id # Absent

\* C1: identify_site_for_update and identify_voice_note_context report a match only
\* with the id of a candidate of the list fetched in that turn for the session's tenant;
\* when the completion service answers site_found = true with a site_id outside that
\* list, the result is the not-found result.
C1_ValidationGate ==
    /\ (IsSiteTurn /\ last.result.site_identified) =>
          /\ last.session.found
          /\ last.result.site_id \in CandidateIds(last.sites)
          /\ CandidateIds(last.sites) = ActiveSitesOf(last.session.tenant_id)
    /\ (IsContextTurn /\ "note_type" \in DOMAIN last.result
            /\ last.result.note_type = "site_specific") =>
          /\ last.session.found
          /\ last.result.site_id # None
          /\ last.result.site_id \in CandidateIds(last.sites)
          /\ CandidateIds(last.sites) = ActiveSitesOf(last.session.tenant_id)
    /\ (IsSiteTurn /\ NamesSite(last.answer)
            /\ last.answer.site_id \notin CandidateIds(last.sites)) =>
          last.result.site_identified = FALSE
    /\ (IsContextTurn /\ NamesSite(last.answer)
            /\ last.answer.site_id \notin CandidateIds(last.sites)) =>
          /\ last.result.note_type = "general"
          /\ last.result.site_id = None

\* C1 witness: for a caller of tenant t1 with two candidates the completion service
\* named s3, a site of tenant t2, and the turn answered not found.
C1_Witness ==
    /\ IsSiteTurn
    /\ last.session.found
    /\ last.session.tenant_id = "t1"
    /\ Len(last.sites) = 2
    /\ NamesSite(last.answer)
    /\ last.answer.site_id = "s3"
    /\ last.result.site_identified = FALSE

\* the site_description argument is missing, null, empty or whitespace only
BlankDescription(d) == d.t # "str" \/ \A i \in DOMAIN d.v : IsSpace(d.v[i])

\* the reply carries the full candidate list of the session's tenant
CarriesFullList ==
    /\ "sites_list" \in DOMAIN last.result
    /\ {last.result.sites_list[i].site_id : i \in DOMAIN last.result.sites_list}
          = ActiveSitesOf(last.session.tenant_id)
    /\ Len(last.result.sites_list) = Cardinality(ActiveSitesOf(last.session.tenant_id))

\* C5 as stated: identify_site_for_update with a blank description, for an authenticated
\* call, answers site_identified = false with the tenant's full candidate list as
\* sites_list and calls the completion service not at all, for every candidate set.
C5_BlankDescriptionCarriesList ==
    (IsSiteTurn /\ last.session.found /\ BlankDescription(last.description)) =>
        /\ last.result.site_identified = FALSE
        /\ last.completion_calls = 0
        /\ CarriesFullList

\* the resolution did not end in a validated match
FailedResolution(answer, sites) ==
    \/ answer.kind \in {"http_error", "transport_error", "bad_shape", "not_json", "json_other"}
    \/ /\ answer.kind = "json_object"
       /\ \/ answer.site_found # "true"
          \/ answer.site_id \notin CandidateIds(sites)

\* C7: in identify_site_for_update with a non-empty description every failed resolution
\* (status other than 200, text that is no JSON, JSON of another shape such as a missing
\* site_id, a failed validation gate) ends in a reply with site_identified = false and a
\* message; no exception leaves the handler.
C7_FailuresDegrade ==
    (IsSiteTurn /\ last.completion_calls = 1 /\ FailedResolution(last.answer, last.sites)) =>
        /\ ~last.raised
        /\ last.result.site_identified = FALSE
        /\ "message" \in DOMAIN last.result
        /\ last.result.message # ""

\* C7 witness: the completion service answered site_found = true without a site_id key
\* and the turn replied with the error result.
C7_Witness ==
    /\ IsSiteTurn
    /\ last.completion_calls = 1
    /\ last.answer.kind = "json_object"
    /\ last.answer.site_found = "true"
    /\ last.answer.site_id = Absent
    /\ last.result.site_identified = FALSE
    /\ "error" \in DOMAIN last.result

(***************************************************************************)
(* Properties of the session-dependent turns (SpecCall)                    *)
(***************************************************************************)
SessionHandlers ==
    {"identify_site_for_update", "identify_voice_note_context",
     "save_site_progress_update", "save_voice_note"}

SaveHandlers == {"save_site_progress_update", "save_voice_note"}

\* the turn has a call id, and the log has no authentication event for it or the
\* session store is unavailable
NoSessionFor(turn) ==
    /\ turn.handler \in SessionHandlers
    /\ turn.vapi_call_id # None
    /\ ~turn.store_ok \/ RecordedAuth(turn.vapi_call_id) = {}

CallAgainMessages ==
    {"I couldn't find your session. Please try calling again.",
     "I couldn't find your call session. Please try calling again."}

ArgumentMessages ==
    {"I need to know which site this update is for.",
     "I didn't receive any note content to save."}

\* success / site_identified / context_identified
FlagOfReply(turn) ==
    CASE turn.handler = "identify_site_for_update" -> turn.result.site_identified
      [] turn.handler = "identify_voice_note_context" -> turn.result.context_identified
      [] OTHER -> turn.result.success

\* a save turn whose site_id / note_text argument is missing
RejectsArguments(turn) == turn.handler \in SaveHandlers /\ ~turn.arguments_ok

C18_LookupIsPureRead ==
    /\ [](last.handler \in SessionHandlers /\ last.vapi_call_id # None /\ ~last.store_ok
             => last.session = NoSession /\ ~last.raised)
    /\ [][last'.handler \in SessionHandlers /\ last' # last =>
             vapi_logs' = vapi_logs /\ recorded' = recorded /\ inflight' = inflight]_vars

\* C18 witness: the call has an authentication event, the store does not answer, and the
\* turn goes on without a session.
C18_Witness ==
    /\ last.handler \in SessionHandlers
    /\ last.vapi_call_id = "c1"
    /\ RecordedAuth("c1") # {}
    /\ ~last.store_ok
    /\ last.session = NoSession
    /\ ~last.raised

(***************************************************************************)
(* Properties of the calls' sessions (SpecShapes)                          *)
(***************************************************************************)
\* C19: two different calls never share session state: call c2, which never
\* authenticated, resolves no session in any of its turns, whatever the shapes in which
\* the authentication webhooks of call c1 and the turns of call c2 arrive.
C19_CallsNeverShareSessions ==
    last.handler \in SessionHandlers => last.session = NoSession

(***************************************************************************)
(* Properties of the greeting (SpecGreeting)                               *)
(***************************************************************************)
\* the pieces 'X or Y' or 'X, Y, or Z' of a listing of the names
Listing(names) ==
    [j \in 1..(2 * Len(names) - 1) |->
        IF j % 2 = 1 THEN names[(j + 1) \div 2]
        ELSE IF Len(names) = 2 THEN " or "
        ELSE IF j = 2 * Len(names) - 2 THEN ", or "
        ELSE ", "]

\* the greeting holds the pieces in that order
Says(greeting, pieces) ==
    \E i \in 1..Len(greeting) :
        /\ i + Len(pieces) - 1 <= Len(greeting)
        /\ SubSeq(greeting, i, i + Len(pieces) - 1) = pieces

\* C20: the reply to an authenticated caller is decided by the number of the caller's
\* enabled skills: none gives authorized = true, the contact-support greeting and
\* single_skill_mode = false; one gives single_skill_mode = true; two or more give
\* single_skill_mode = false and a greeting listing every skill name ('X or Y',
\* 'X, Y, or Z'); skill_count is the number of skills listed.
C20_RoutingBySkillCount ==
    last.handler = "authenticate_by_phone" /\ "enabled_skills" \in DOMAIN last =>
        LET skills == last.enabled_skills
            reply == last.result
        IN  /\ reply.authorized
            /\ reply.skill_count = Len(skills)
            /\ reply.skill_count = Len(reply.available_skills)
            /\ reply.single_skill_mode = (Len(skills) = 1)
            /\ Len(skills) = 0 =>
                  Says(reply.greeting_message,
                       <<"! I don't have any skills configured for you yet. Please contact support.">>)
            /\ Len(skills) >= 2 => Says(reply.greeting_message, Listing(skills))

(***************************************************************************)
(* Properties of the webhook replies (SpecCall)                            *)
(***************************************************************************)
\* C21: every webhook tool handler answers every request with the envelope of one
\* result whose toolCallId is the id of the request's first tool call: no exception
\* leaves the handler, and the reply names that id.  In the requests of SpecCall every
\* request with a call object or a vapi_call_id argument carries the tool call tc1, and
\* a request without tool call has the id unknown.
C21_EnvelopeEveryRequest ==
    last.handler \in SessionHandlers \cup {"authenticate_by_phone"} =>
        /\ "raised" \in DOMAIN last => ~last.raised
        /\ last.toolCallId \in {"tc1", "unknown"}
        /\ last.vapi_call_id # "unknown" => last.toolCallId = "tc1"

(***************************************************************************)
(* Properties of extract_vapi_args (SpecArgs)                              *)
(***************************************************************************)
\* the request has message.toolCalls
HasToolCalls(request) ==
    /\ "message" \in DOMAIN request
    /\ request.message.t = "dict"
    /\ request.message.v.toolCalls.t # "absent"

\* the first tool call of the request, when there is one that is an object
FirstToolCall(request) ==
    LET calls == request.message.v.toolCalls
    IN  IF calls.t = "list" /\ calls.v # <<>> /\ calls.v[1].t = "dict"
        THEN calls.v[1].v
        ELSE [id |-> PyAbsent, function |-> PyAbsent]

\* the id and the arguments of the first tool call, unknown and {} where they are missing
OfFirstToolCall(request, result) ==
    LET first == FirstToolCall(request)
    IN  /\ result.tool_call_id = IF first.id.t = "absent" THEN PyStr("unknown") ELSE first.id
        /\ result.args = IF first.function.t = "dict" /\ first.function.v.arguments.t # "absent"
                         THEN first.function.v.arguments
                         ELSE EmptyDict

StoredRecords == site_progress_updates \o voice_notes

\* a save turn that answered success
Saved(turn) ==
    turn.handler \in {"save_site_progress_update", "save_voice_note"} /\ turn.result.success

\* the identifier a successful save turn generated and answered
AnsweredId(turn) ==
    IF turn.handler = "save_site_progress_update" THEN turn.result.update_id
    ELSE turn.result.note_id

\* C23: when a save turn (save_site_progress_update or save_voice_note) is delivered
\* again, each delivery stores its record under the identifier it generated: no two
\* stored records share an id, the record of a successful delivery is the last row of
\* its table and has the id the delivery answered, a delivery leaves the rows stored
\* before as they were, and after a re-delivered authentication turn the turns of the
\* call resolve the same user and tenant.
C23_DuplicateDeliverySafe ==
    /\ [](/\ \A i, j \in DOMAIN StoredRecords :
                i # j => StoredRecords[i].id # StoredRecords[j].id
          /\ Saved(last) /\ last.handler = "save_site_progress_update" =>
                site_progress_updates[Len(site_progress_updates)].id = AnsweredId(last)
          /\ Saved(last) /\ last.handler = "save_voice_note" =>
                voice_notes[Len(voice_notes)].id = AnsweredId(last)
          /\ last.handler \in SessionHandlers /\ last.session.found =>
                last.session.user_id = "u1" /\ last.session.tenant_id = "t1")
    /\ [][/\ Len(site_progress_updates') >= Len(site_progress_updates)
          /\ Len(voice_notes') >= Len(voice_notes)
          /\ \A i \in DOMAIN site_progress_updates :
                site_progress_updates'[i] = site_progress_updates[i]
          /\ \A i \in DOMAIN voice_notes : voice_notes'[i] = voice_notes[i]]_vars

(***************************************************************************)
(* C24: reading the registry (SpecSquad)                                   *)
(***************************************************************************)
\* the positions of the registered skills whose assistant_id is set
ReadySkills(skills) == {i \in DOMAIN skills : ~IsNone(skills[i].value.assistant_id)}

\* C24: in every registry state reached by register, setup_all and setup_skill,
\* get_skills_for_squad returns exactly the registered skills whose assistant_id is set,
\* one entry each with that skill_key and assistant_id; get_assistant_ids maps every
\* registered skill key, and no other, to the skill's assistant_id or None; and get_info
\* of a registered skill reports is_ready = true exactly when its assistant_id is set.
C24_RegistryReads ==
    /\ last.handler = "get_skills_for_squad" =>
          LET skills == last.registry.skills
          IN  /\ Len(last.result) = Cardinality(ReadySkills(skills))
              /\ \A i \in ReadySkills(skills) :
                    \E j \in DOMAIN last.result :
                        last.result[j] = [skill_key |-> skills[i].key,
                                          assistant_id |-> skills[i].value.assistant_id]
    /\ last.handler = "get_assistant_ids" =>
          LET skills == last.registry.skills
          IN  /\ Keys(last.result) = Keys(skills)
              /\ Len(last.result) = Len(skills)
              /\ \A i \in DOMAIN skills :
                    ToString(Lookup(last.result, skills[i].key))
                        = ToString(skills[i].value.assistant_id)
    /\ last.handler = "list_skills" =>
          LET skills == last.registry.skills
          IN  /\ Len(last.result) = Len(skills)
              /\ \A i \in DOMAIN skills :
                    /\ last.result[i].skill_key = skills[i].key
                    /\ last.result[i].is_ready <=> i \in ReadySkills(skills)

\* after a run of setup_all, the squad listing of a registry with two skills, one of
\* them with an assistant
C24_Witness ==
    /\ last.handler = "get_skills_for_squad"
    /\ reports # <<>>
    /\ Len(last.registry.skills) = 2
    /\ Len(last.result) = 1

(***************************************************************************)
(* C25: the transcript of a site update (SpecSave)                         *)
(***************************************************************************)
\* one line per message with non-empty content, tagged by role, in the original order
RECURSIVE LinesByContent(_)
LinesByContent(messages) ==
    IF messages = <<>> THEN <<>>
    ELSE LET msg == Head(messages)
             tag == IF msg.role = "user" THEN <<"U", "s", "e", "r", ":", " ">>
                    ELSE <<"A", "s", "s", "i", "s", "t", "a", "n", "t", ":", " ">>
         IN  (IF msg.content # <<>> /\ msg.role \in {"user", "assistant"}
              THEN tag \o msg.content \o <<"\n">> ELSE <<>>)
             \o LinesByContent(Tail(messages))

\* C25: the transcript save_site_progress_update sends to the extraction pipeline has
\* one line per message with non-empty content, in the original order, tagged "User:"
\* or "Assistant:" by role and skipping every other role; it is the raw_notes argument
\* only when there are no such lines; and the record stored carries that transcript.
C25_TranscriptFromMessages ==
    last.handler = "save_site_progress_update" /\ last.completion_calls = 1 =>
        /\ last.sent = IF LinesByContent(last.messages) # <<>>
                       THEN LinesByContent(last.messages) ELSE last.raw_notes
        /\ last.inserts = 1 =>
              site_progress_updates[Len(site_progress_updates)].raw_transcript = last.sent

(***************************************************************************)
(* C26: the identity of a stored site update (SpecSave)                    *)
(***************************************************************************)
\* C26: for every extraction result, the record save_site_progress_update inserts has
\* the tenant_id and user_id of the session resolved for the call, the site_id that was
\* requested and verified against that tenant, and the identifier generated for it.
C26_RecordIdentity ==
    last.handler = "save_site_progress_update" /\ last.inserts = 1 =>
        LET record == site_progress_updates[Len(site_progress_updates)]
        IN  /\ record.tenant_id = last.session.tenant_id
            /\ record.user_id = last.session.user_id
            /\ record.site_id = last.site_id
            /\ SiteCheck(record.site_id, last.session.tenant_id) # <<>>
            /\ record.id = last.result.update_id

(***************************************************************************)
(* C27: tenant isolation of stored records (SpecSave)                      *)
(***************************************************************************)
\* the record a save turn has just stored
StoredBy(turn) ==
    IF turn.handler = "save_site_progress_update"
    THEN site_progress_updates[Len(site_progress_updates)]
    ELSE voice_notes[Len(voice_notes)]

\* C27: a site progress update or a voice note is stored with a site_id that is not
\* null only if that site is a site of the tenant resolved from the call's session; a
\* save turn that names a site of another tenant or no site of the store stores no
\* record with that site_id.
C27_TenantIsolation ==
    last.handler \in {"save_site_progress_update", "save_voice_note"} /\ last.inserts = 1 =>
        \/ StoredBy(last).site_id = None
        \/ SiteCheck(StoredBy(last).site_id, last.session.tenant_id) # <<>>

(***************************************************************************)
(* C28: concurrent provisioning (SpecRace)                                 *)
(***************************************************************************)
\* both runs have listed the platform's tools and returned their tool ids
BothReturned ==
    \A inst \in Instances :
        creating[inst].phase = "done" /\ ~creating[inst].raised /\ creating[inst].listed

\* C28: when two create_tools runs against the same platform interleave and both
\* return, the platform holds at most one tool per declared function name, and two runs
\* of the same skill return the same tool-id map.
C28_ConcurrentProvisioning ==
    BothReturned =>
        /\ \A i, j \in DOMAIN vapi.tools :
              vapi.tools[i].name = vapi.tools[j].name => i = j
        /\ creating["a"].cls = creating["b"].cls =>
              creating["a"].tool_ids = creating["b"].tool_ids

(***************************************************************************)
(* C29: a refused authentication leaves no event (SpecGreeting)            *)
(***************************************************************************)
\* C29: in each implementation of authenticate_by_phone, a turn that answers
\* authorized = false has appended no authentication event to vapi_logs.
C29_RefusedLeavesNoEvent ==
    [][last'.handler = "authenticate_by_phone" /\ ~last'.result.authorized
          => vapi_logs' = vapi_logs]_vars

(***************************************************************************)
(* C30: an authorized call resolves its session (SpecCall)                 *)
(***************************************************************************)
\* a turn of call c1 that read the session store while the store answered
ReadsSessionOfC1(turn) ==
    turn.handler \in SessionHandlers /\ turn.vapi_call_id = "c1" /\ turn.store_ok

====
